---- MODULE Spec2Model ----
(***************************************************************************)
(* Model of the source scanner of BTPW_Project_Builder_Evaluator:          *)
(* Existing_scanProject walks a directory tree with filepath.Walk, parses  *)
(* every candidate .go file with Existing_extractFunctions and collects    *)
(* the FunctionInfo records into a ProjectStructure.                       *)
(*                                                                         *)
(* Go strings are modelled as sequences of one-character strings, so that  *)
(* strings.HasPrefix, strings.HasSuffix, strings.Contains and              *)
(* strings.ToLower are computed and not assumed.                           *)
(***************************************************************************)
EXTENDS Integers, Sequences, FiniteSets, TLC

\* Largest number of regular files in a modelled directory tree.
MaxFiles == 2
\* Largest number of scans one process runs one after the other.
\* The largest number of words in a modelled file name.
MaxWords == 2
\* The largest number of times the menu is shown.
MaxRounds == 2
MaxScans == 2

----------------------------------------------------------------------------
(* Strings *)

\* The characters that occur in the modelled names, in ASCII order.
Alphabet ==
    << ".", "/", "G", "N", "P", "S", "_",
       "a", "b", "c", "d", "e", "g", "h", "i", "l", "m", "n", "o", "p",
       "r", "s", "t", "u", "v", "w" >>

Ord(c) == CHOOSE i \in 1..Len(Alphabet) : Alphabet[i] = c

\* unicode.ToLower on the characters of the alphabet.
LowerOf(c) ==
    CASE c = "G" -> "g"
      [] c = "N" -> "n"
      [] c = "P" -> "p"
      [] c = "S" -> "s"
      [] OTHER   -> c

ToLower(s) == [i \in 1..Len(s) |-> LowerOf(s[i])]

HasPrefix(s, prefix) ==
    Len(s) >= Len(prefix) /\ SubSeq(s, 1, Len(prefix)) = prefix

HasSuffix(s, suffix) ==
    Len(s) >= Len(suffix) /\ SubSeq(s, Len(s) - Len(suffix) + 1, Len(s)) = suffix

Contains(s, substr) ==
    \E i \in 1..(Len(s) - Len(substr) + 1) : SubSeq(s, i, i + Len(substr) - 1) = substr

\* s < t in Go's string order (bytewise lexicographic).
RECURSIVE StrLess(_, _)
StrLess(s, t) ==
    IF t = << >> THEN FALSE
    ELSE IF s = << >> THEN TRUE
    ELSE IF Head(s) # Head(t) THEN Ord(Head(s)) < Ord(Head(t))
    ELSE StrLess(Tail(s), Tail(t))

\* String literals of the program and of the modelled trees.
S_dot       == << "." >>
S_vendor    == << "v", "e", "n", "d", "o", "r" >>
S_dotgo     == << ".", "g", "o" >>
S_testgo    == << "_", "t", "e", "s", "t", ".", "g", "o" >>
S_create    == << "c", "r", "e", "a", "t", "e" >>
S_get       == << "g", "e", "t" >>
S_find      == << "f", "i", "n", "d" >>
S_update    == << "u", "p", "d", "a", "t", "e" >>
S_delete    == << "d", "e", "l", "e", "t", "e" >>
S_new       == << "n", "e", "w" >>
S_handle    == << "h", "a", "n", "d", "l", "e" >>
S_validate  == << "v", "a", "l", "i", "d", "a", "t", "e" >>
S_setup     == << "s", "e", "t", "u", "p" >>
S_open      == << "o", "p", "e", "n" >>
S_migrate   == << "m", "i", "g", "r", "a", "t", "e" >>

S_proj      == << "p" >>
S_sub       == << "s", "u", "b" >>
S_dotgit    == << ".", "g", "i", "t" >>
S_a_go      == << "a", ".", "g", "o" >>
S_b_go      == << "b", ".", "g", "o" >>
S_b_test_go == << "b", "_", "t", "e", "s", "t", ".", "g", "o" >>
S_go_mod    == << "g", "o", ".", "m", "o", "d" >>
S_main      == << "m", "a", "i", "n" >>
S_helper    == << "h", "e", "l", "p", "e", "r" >>
S_store     == << "s", "t", "o", "r", "e" >>
S_Store     == << "S", "t", "o", "r", "e" >>
S_Get       == << "G", "e", "t" >>
S_Put       == << "P", "u", "t" >>
S_New       == << "N", "e", "w" >>
S_empty     == << >>

----------------------------------------------------------------------------
(* go/ast: the parse result of a source file *)

Ident(name)  == [node |-> "Ident", Name |-> name, X |-> << >>]
StarExpr(x)  == [node |-> "StarExpr", Name |-> S_empty, X |-> << x >>]

\* FuncDecl.Recv: nil for a function, a field list for a method.
NilRecv         == [isNil |-> TRUE, List |-> << >>]
FieldList(list) == [isNil |-> FALSE, List |-> list]
Field(type)     == [Type |-> type]

FuncDecl(name, line, recv, body) ==
    [node |-> "FuncDecl", Name |-> name, Line |-> line, Recv |-> recv, Body |-> body]
GenDecl(line) ==
    [node |-> "GenDecl", Name |-> S_empty, Line |-> line, Recv |-> NilRecv, Body |-> << >>]
FuncLit(line) ==
    [node |-> "FuncLit", Name |-> S_empty, Line |-> line, Recv |-> NilRecv, Body |-> << >>]

\* What parser.ParseFile makes of a file's contents: a syntax error or an
\* *ast.File with its package name and top-level declarations.
SyntaxError       == [ok |-> FALSE, isNil |-> FALSE, Name |-> S_empty, Decls |-> << >>]
File(name, decls) == [ok |-> TRUE, isNil |-> FALSE, Name |-> name, Decls |-> decls]
\* The file cannot be read: ParseFile returns a nil *ast.File and the error.
NilFile           == [ok |-> FALSE, isNil |-> TRUE, Name |-> S_empty, Decls |-> << >>]
\* A syntax error after the package clause: a partial AST with the package name.
PartialFile(name) == [ok |-> FALSE, isNil |-> FALSE, Name |-> name, Decls |-> << >>]

\* package main; import ...; func main() { go func() {...}() }; func helper() {}
SrcMainHelper ==
    File(S_main, << GenDecl(3),
                    FuncDecl(S_main, 5, NilRecv, << FuncLit(6) >>),
                    FuncDecl(S_helper, 9, NilRecv, << >>) >>)

\* package store; type Store struct{}; func (s *Store) Get() {}
SrcStoreGet ==
    File(S_store, << GenDecl(3),
                     FuncDecl(S_Get, 5, FieldList(<< Field(StarExpr(Ident(S_Store))) >>), << >>) >>)

\* package store; func New() {}; func (s Store) Put() {}
SrcStorePut ==
    File(S_store, << FuncDecl(S_New, 3, NilRecv, << >>),
                     FuncDecl(S_Put, 5, FieldList(<< Field(Ident(S_Store)) >>), << >>) >>)

\* package main; const x = 1      (no function at all)
SrcNoFuncs == File(S_main, << GenDecl(3) >>)

\* package main; func () helper() {}      (a receiver list without receiver,
\* which the parser accepts)
SrcNoReceiver == File(S_main, << FuncDecl(S_helper, 3, FieldList(<< >>), << >>) >>)

\* The file contents of the modelled trees, by name, and what
\* parser.ParseFile makes of each.
Contents ==
    [ broken      |-> SyntaxError,
      main_helper |-> SrcMainHelper,
      store_get   |-> SrcStoreGet,
      store_put   |-> SrcStorePut,
      no_funcs    |-> SrcNoFuncs,
      empty       |-> SyntaxError,
      truncated   |-> PartialFile(S_main),
      unreadable  |-> NilFile,
      no_receiver |-> SrcNoReceiver ]

Sources == DOMAIN Contents

----------------------------------------------------------------------------
(* The directory tree that is scanned *)

RootDirs  == { S_proj }
DirPaths  == { << >>, << S_sub >>, << S_dotgit >>, << S_vendor, S_sub >> }
FileNames == { S_a_go, S_b_go, S_b_test_go, S_go_mod }

\* The contents a file of a given name may have.
SourcesFor(name) ==
    IF name = S_go_mod THEN { "broken" }
    ELSE IF name = S_b_test_go THEN { "broken", "main_helper" }
    ELSE IF name = S_b_go THEN { "broken", "store_get", "store_put" }
    ELSE { "broken", "main_helper", "store_put", "no_funcs" }

Locations == DirPaths \X FileNames

RECURSIVE SubsetsUpTo(_, _)
SubsetsUpTo(S, k) ==
    IF k = 0 THEN { {} }
    ELSE LET prev == SubsetsUpTo(S, k - 1)
         IN  prev \cup { s \cup {e} : s \in prev, e \in S }

\* A tree: the regular files it holds (location -> name of the contents); its
\* directories are the prefixes of the locations.
Trees ==
    UNION { { f \in [L -> Sources] : \A l \in L : f[l] \in SourcesFor(l[2]) }
            : L \in SubsetsUpTo(Locations, MaxFiles) }

\* Trees of malformed files: empty, cut short, unreadable, with an empty
\* receiver list, next to a valid one.
MalformedSources == { "empty", "truncated", "unreadable", "no_receiver", "store_put" }
MalformedTrees ==
    UNION { [L -> MalformedSources]
            : L \in SubsetsUpTo({ << >>, << S_sub >> } \X { S_a_go, S_b_go }, MaxFiles) }

Prefixes(dir) == { SubSeq(dir, 1, n) : n \in 0..Len(dir) }

DirEntries(files) ==
    { [comps |-> d, isDir |-> TRUE] : d \in UNION { Prefixes(l[1]) : l \in DOMAIN files } \cup { << >> } }
FileEntries(files) ==
    { [comps |-> Append(l[1], l[2]), isDir |-> FALSE] : l \in DOMAIN files }
Entries(files) == DirEntries(files) \cup FileEntries(files)

NoEntry == [comps |-> << >>, isDir |-> FALSE]

\* The parse result of the contents of the file entry e.
SrcOf(files, e) ==
    Contents[files[<< SubSeq(e.comps, 1, Len(e.comps) - 1), e.comps[Len(e.comps)] >>]]

IsStrictPrefix(p, q) == Len(p) < Len(q) /\ SubSeq(q, 1, Len(p)) = p

----------------------------------------------------------------------------
(* State *)

VARIABLES
    fs,         \* the scanned tree: [root, files, bad]; bad is the entry the walk cannot read
    pending,    \* filepath.Walk: the entries not yet handed to the callback, in walk order
    structure,  \* the *ProjectStructure under construction
    err,        \* the error filepath.Walk returns
    parsed,     \* the paths handed to parser.ParseFile so far
    result,     \* what Existing_scanProject returned: [snapshot, err]
    pc,         \* "idle", "call", "walk", "return", "done" or "panicked"
    log,        \* the scans that returned: the tree scanned and what was returned
    bt,         \* the run of BTFlowcharts: its position, environment, output and return
    ph,         \* the call of Existing_determinePhase: its argument and what it returned
    ev,         \* the run of the project evaluator: the layout evaluated and its ProjectStatus
    menu,       \* the run of runInteractiveMode: its position, the choice handled, the answer
    rp,         \* the call of Existing_generateUpdatedReports: its position, locals and return
    sq,         \* the call of Existing_generateDynamicDevelopmentSequence: snapshot and nodes
    mr,         \* the call of findModuleRoot: the directories, its position and return
    dd          \* the call of Existing_WriteFunctionDependencyDiagram: functions and output

vars == << fs, pending, structure, err, parsed, result, pc, log, bt, ph, ev, menu,
          rp, sq, mr, dd >>

\* The state of the scanner.
scanner == << fs, pending, structure, err, parsed, result, pc, log >>

\* The state of the callers of the scanner.
caller == << bt, ph, ev, menu, rp, sq, mr, dd >>

\* The state outside a run of BTFlowcharts and the scan it makes.
exceptBT == << ph, ev, menu, rp, sq, mr, dd >>

\* The state outside a call of Existing_determinePhase.
exceptPhase == << bt, ev, menu, rp, sq, mr, dd >>

\* The state outside a run of the project evaluator.
exceptEval == << bt, ph, menu, rp, sq, mr, dd >>

\* The state outside a run of runInteractiveMode.
exceptMenu == << bt, ph, ev, rp, sq, mr, dd >>

\* The state outside a call of Existing_generateUpdatedReports and the
\* scan before it.
exceptReports == << bt, ph, ev, menu, sq, mr, dd >>

\* The state outside a call of Existing_generateDynamicDevelopmentSequence.
exceptSequence == << bt, ph, ev, menu, rp, mr, dd >>

\* The state outside a call of findModuleRoot.
exceptModuleRoot == << bt, ph, ev, menu, rp, sq, dd >>

\* The state outside a call of Existing_WriteFunctionDependencyDiagram.
exceptDependency == << bt, ph, ev, menu, rp, sq, mr >>

----------------------------------------------------------------------------
(* Errors and maps *)

NoErr           == [kind |-> "nil", path |-> S_empty]
SkipDir         == [kind |-> "SkipDir", path |-> S_empty]
\* *fs.PathError of os.Lstat / os.Open: carries the path of the entry.
PathError(path) == [kind |-> "walk", path |-> path]
\* scanner.ErrorList of parser.ParseFile: every entry carries the file name.
ErrorList(path) == [kind |-> "parse", path |-> path]
\* A run-time panic (nil pointer dereference, index out of range).
Panic           == [kind |-> "panic", path |-> S_empty]

EmptyMap == [k \in {} |-> << >>]
\* m[k] of a Go map of slices: the nil slice when the key is absent.
MapGet(m, k) == IF k \in DOMAIN m THEN m[k] ELSE << >>
MapPut(m, k, v) == [x \in DOMAIN m \cup {k} |-> IF x = k THEN v ELSE m[x]]

NilSnapshot == [isNil |-> TRUE, Functions |-> << >>, Files |-> << >>, Packages |-> EmptyMap]

\* &ProjectStructure{Functions: []FunctionInfo{}, Files: []string{}, Packages: make(...)}
ProjectStructure(functions, files, packages) ==
    [isNil |-> FALSE, Functions |-> functions, Files |-> files, Packages |-> packages]

FunctionInfo(name, file, package, line, isMethod, receiver, purpose) ==
    [Name |-> name, File |-> file, Package |-> package, Line |-> line,
     IsMethod |-> isMethod, Receiver |-> receiver, Purpose |-> purpose]

----------------------------------------------------------------------------
(* path/filepath *)

S_slash    == << "/" >>

\* filepath.Base(path): trailing separators are dropped, the last
\* element is kept; "." for the empty path, "/" for a path of separators.
RECURSIVE StripSlashes(_)
StripSlashes(path) ==
    IF path # << >> /\ path[Len(path)] = "/"
    THEN StripSlashes(SubSeq(path, 1, Len(path) - 1))
    ELSE path

Base(path) ==
    IF path = << >> THEN S_dot
    ELSE LET p      == StripSlashes(path)
             slashes == { i \in 1..Len(p) : p[i] = "/" }
             last    == IF slashes = {} THEN 0
                        ELSE CHOOSE i \in slashes : \A j \in slashes : j <= i
         IN  IF p = << >> THEN S_slash ELSE SubSeq(p, last + 1, Len(p))

\* The elements joined by separators.
RECURSIVE JoinComps(_)
JoinComps(comps) ==
    IF Len(comps) = 1 THEN comps[1]
    ELSE comps[1] \o S_slash \o JoinComps(Tail(comps))

\* What filepath.Join puts in front of the elements below root: the
\* cleaned root and a separator, nothing for the root ".".
ChildPrefix(root) ==
    LET r == StripSlashes(root)
    IN  IF r = << >> THEN S_slash
        ELSE IF r = S_dot THEN << >>
        ELSE r \o S_slash

\* The path Walk hands to the callback: the root as it was given, and
\* filepath.Join(root, comps...) below it.
JoinPath(root, comps) ==
    IF comps = << >> THEN root
    ELSE ChildPrefix(root) \o JoinComps(comps)

PathOf(e) == JoinPath(fs.root, e.comps)

\* info.Name(): the last element of the entry's path.
BaseName(e) == IF e.comps = << >> THEN Base(fs.root) ELSE e.comps[Len(e.comps)]

\* Walk visits a directory before its entries, and the entries of a
\* directory in the sorted order of their names.
RECURSIVE CompsLess(_, _)
CompsLess(p, q) ==
    IF p = << >> THEN q # << >>
    ELSE IF q = << >> THEN FALSE
    ELSE IF Head(p) # Head(q) THEN StrLess(Head(p), Head(q))
    ELSE CompsLess(Tail(p), Tail(q))

RECURSIVE WalkOrder(_)
WalkOrder(S) ==
    IF S = {} THEN << >>
    ELSE LET first == CHOOSE e \in S : \A o \in S \ {e} : CompsLess(e.comps, o.comps)
         IN  << first >> \o WalkOrder(S \ {first})

\* What is left to visit after the callback returned SkipDir for directory d.
SkipBelow(seq, d) == SelectSeq(seq, LAMBDA e : ~IsStrictPrefix(d.comps, e.comps))

----------------------------------------------------------------------------
(* Existing_extractFunctions *)

Existing_getSimplePurpose(fn) ==
    LET name == ToLower(fn.Name)
    IN  IF Contains(name, S_create) THEN "Creates new data"
        ELSE IF Contains(name, S_get) \/ Contains(name, S_find) THEN "Retrieves data"
        ELSE IF Contains(name, S_update) THEN "Updates existing data"
        ELSE IF Contains(name, S_delete) THEN "Removes data"
        ELSE IF Contains(name, S_new) THEN "Factory function"
        ELSE IF Contains(name, S_handle) THEN "HTTP request handler"
        ELSE IF Contains(name, S_validate) THEN "Input validation"
        ELSE IF Contains(name, S_setup) THEN "Configuration function"
        ELSE IF Contains(name, S_open) THEN "Opens connections"
        ELSE IF Contains(name, S_migrate) THEN "Database migration"
        ELSE "General function"

\* parser.ParseFile(fset, filePath, nil, parser.ParseComments): reads the file.
ParseFile(filePath) ==
    LET e == CHOOSE e \in FileEntries(fs.files) : PathOf(e) = filePath
    IN  SrcOf(fs.files, e)

\* ast.Inspect(node, f) with f always returning true: every node, depth first.
RECURSIVE InspectDecls(_)
InspectDecls(decls) ==
    IF decls = << >> THEN << >>
    ELSE << Head(decls) >> \o Head(decls).Body \o InspectDecls(Tail(decls))

\* IsFuncDecl with a filter on exported names (ast.IsExported).
IsFuncDecl_ExportedOnly(n) ==
    n.node = "FuncDecl" /\ n.Name # << >> /\ n.Name[1] \in {"G", "N", "P", "S"}

\* case *ast.FuncDecl
IsFuncDecl(n) == n.node = "FuncDecl"

\* The receiver the callback stores: the identifier when the receiver
\* type is a plain *ast.Ident, the zero value otherwise.
ReceiverOf(x) ==
    IF ~x.Recv.isNil /\ Len(x.Recv.List) > 0
    THEN IF x.Recv.List[1].Type.node = "Ident" THEN x.Recv.List[1].Type.Name ELSE S_empty
    ELSE S_empty

\* FuncInfoOf taking the package from the declaration's own name
\* (x.Name.Name written for node.Name.Name).
FuncInfoOf_PackageFromDecl(x, filePath, packageName) ==
    FunctionInfo(x.Name, filePath, x.Name, x.Line, ~x.Recv.isNil, ReceiverOf(x),
                 Existing_getSimplePurpose([Name |-> x.Name, File |-> filePath]))

FuncInfoOf(x, filePath, packageName) ==
    FunctionInfo(x.Name, filePath, packageName, x.Line, ~x.Recv.isNil, ReceiverOf(x),
                 Existing_getSimplePurpose([Name |-> x.Name, File |-> filePath]))

\* Existing_extractFunctions replacing the parser's error by a fixed message.
Existing_extractFunctions_BareError(filePath) ==
    LET node == ParseFile(filePath)
    IN  IF ~node.ok
        THEN [functions |-> << >>, err |-> ErrorList(S_empty)]
        ELSE LET packageName == node.Name
                 found == SelectSeq(InspectDecls(node.Decls), IsFuncDecl)
             IN  [functions |-> [i \in 1..Len(found) |-> FuncInfoOf(found[i], filePath, packageName)],
                  err |-> NoErr]

\* Existing_extractFunctions reading node.Name.Name before testing err.
Existing_extractFunctions_NameFirst(filePath) ==
    LET node == ParseFile(filePath)
    IN  IF node.isNil
        THEN [functions |-> << >>, err |-> Panic]
        ELSE IF ~node.ok
        THEN [functions |-> << >>, err |-> ErrorList(filePath)]
        ELSE LET packageName == node.Name
                 found == SelectSeq(InspectDecls(node.Decls), IsFuncDecl)
             IN  [functions |-> [i \in 1..Len(found) |-> FuncInfoOf(found[i], filePath, packageName)],
                  err |-> NoErr]

Existing_extractFunctions(filePath) ==
    LET node == ParseFile(filePath)
    IN  IF ~node.ok
        THEN [functions |-> << >>, err |-> ErrorList(filePath)]
        ELSE IF node.isNil
        THEN [functions |-> << >>, err |-> Panic]
        ELSE LET packageName == node.Name
                 found == SelectSeq(InspectDecls(node.Decls), IsFuncDecl)
             IN  [functions |-> [i \in 1..Len(found) |-> FuncInfoOf(found[i], filePath, packageName)],
                  err |-> NoErr]

----------------------------------------------------------------------------
(* Existing_scanProject *)

\* ShouldSkipDir without the vendor test.
ShouldSkipDir_HiddenOnly(name) == HasPrefix(name, S_dot)
\* IsGoFile without the suffix test.
IsGoFile_AnyFile(path) == TRUE
\* IsTestFile with the suffix cut short.
IsTestFile_ShortSuffix(path) == HasSuffix(path, << "_", "t", "e", "s", "t" >>)

ShouldSkipDir(name) == HasPrefix(name, S_dot) \/ name = S_vendor
IsGoFile(path)      == HasSuffix(path, S_dotgo)
IsTestFile(path)    == HasSuffix(path, S_testgo)

\* GroupByPackage appending the path once for every function of the file.
RECURSIVE GroupByPackage_PerFunction(_, _, _)
GroupByPackage_PerFunction(packages, functions, path) ==
    IF functions = << >> THEN packages
    ELSE LET pkg == Head(functions).Package
         IN  GroupByPackage_PerFunction(
                 MapPut(packages, pkg, Append(MapGet(packages, pkg), path)),
                 Tail(functions), path)

\* GroupByPackage without the len(functions) > 0 guard: a file without
\* functions goes under the empty package name.
GroupByPackage_Unguarded(packages, functions, path) ==
    LET pkg == IF Len(functions) > 0 THEN functions[1].Package ELSE S_empty
    IN  MapPut(packages, pkg, Append(MapGet(packages, pkg), path))

\* Group by package: the file goes under the package of its first function.
GroupByPackage(packages, functions, path) ==
    IF Len(functions) > 0
    THEN LET pkg == functions[1].Package
         IN  MapPut(packages, pkg, Append(MapGet(packages, pkg), path))
    ELSE packages

\* AddFile with the new declarations put in front of the earlier ones.
AddFile_Prepend(st, functions, path) ==
    ProjectStructure(functions \o st.Functions,
                     Append(st.Files, path),
                     GroupByPackage(st.Packages, functions, path))

AddFile(st, functions, path) ==
    ProjectStructure(st.Functions \o functions,
                     Append(st.Files, path),
                     GroupByPackage(st.Packages, functions, path))

\* The callback without the path == rootDir test: the skip rule is
\* applied to the root as to every other directory.
WalkFn_NoRootGuard(path, info, werr, st) ==
    IF werr # NoErr THEN [ret |-> werr, st |-> st, opened |-> << >>]
    ELSE IF info.IsDir
         THEN IF ShouldSkipDir(info.Name)
              THEN [ret |-> SkipDir, st |-> st, opened |-> << >>]
              ELSE [ret |-> NoErr, st |-> st, opened |-> << >>]
    ELSE IF ~IsGoFile(path) THEN [ret |-> NoErr, st |-> st, opened |-> << >>]
    ELSE IF IsTestFile(path) THEN [ret |-> NoErr, st |-> st, opened |-> << >>]
    ELSE LET x == Existing_extractFunctions(path)
         IN  IF x.err # NoErr
             THEN [ret |-> x.err, st |-> st, opened |-> << path >>]
             ELSE [ret |-> NoErr, st |-> AddFile(st, x.functions, path), opened |-> << path >>]

\* The callback handed to filepath.Walk: what it returns, the structure
\* it leaves behind and the files it opened.
WalkFn(path, info, werr, st) ==
    IF werr # NoErr THEN [ret |-> werr, st |-> st, opened |-> << >>]
    ELSE IF info.IsDir
         THEN IF path = fs.root THEN [ret |-> NoErr, st |-> st, opened |-> << >>]
              ELSE IF ShouldSkipDir(info.Name)
                   THEN [ret |-> SkipDir, st |-> st, opened |-> << >>]
                   ELSE [ret |-> NoErr, st |-> st, opened |-> << >>]
    ELSE IF ~IsGoFile(path) THEN [ret |-> NoErr, st |-> st, opened |-> << >>]
    ELSE IF IsTestFile(path) THEN [ret |-> NoErr, st |-> st, opened |-> << >>]
    ELSE LET x == Existing_extractFunctions(path)
         IN  IF x.err # NoErr
             THEN [ret |-> x.err, st |-> st, opened |-> << path >>]
             ELSE [ret |-> NoErr, st |-> AddFile(st, x.functions, path), opened |-> << path >>]

\* What Existing_scanProject hands back to its caller.
ReturnValue(st, e) == [snapshot |-> st, err |-> e]

\* No caller's state is involved when the scanner is run on its own.
NotRunning == [pc |-> "idle"]

BTIdle == bt = NotRunning

PhaseIdle == ph = NotRunning

EvalIdle == ev = NotRunning

MenuIdle == menu = NotRunning

ReportsIdle == rp = NotRunning

\* None of the diagram writers and helpers is running.
HelpersIdle == sq = NotRunning /\ mr = NotRunning /\ dd = NotRunning

CallerIdle ==
    /\ BTIdle
    /\ PhaseIdle
    /\ EvalIdle
    /\ MenuIdle
    /\ ReportsIdle
    /\ HelpersIdle

\* No scan is running and none has run.
ScannerIdle ==
    /\ fs = [root |-> S_proj, files |-> EmptyMap, bad |-> NoEntry]
    /\ pending = << >>
    /\ structure = NilSnapshot
    /\ err = NoErr
    /\ parsed = << >>
    /\ result = [snapshot |-> NilSnapshot, err |-> NoErr]
    /\ log = << >>
    /\ pc = "idle"

InitOver(trees) ==
    /\ \E r \in RootDirs, f \in trees :
          \E b \in {NoEntry} \cup Entries(f) :
              fs = [root |-> r, files |-> f, bad |-> b]
    /\ pending = << >>
    /\ structure = NilSnapshot
    /\ err = NoErr
    /\ parsed = << >>
    /\ result = ReturnValue(NilSnapshot, NoErr)
    /\ log = << >>
    /\ pc = "call"
    /\ CallerIdle

Init == InitOver(Trees)
InitMalformed == InitOver(MalformedTrees)

\* Call with the structure kept in a package-level variable that is
\* built once and never reset.
Call_SharedStructure ==
    /\ pc = "call"
    /\ structure' = IF structure.isNil THEN ProjectStructure(<< >>, << >>, EmptyMap) ELSE structure
    /\ pending' = WalkOrder(Entries(fs.files))
    /\ pc' = "walk"
    /\ UNCHANGED << fs, err, parsed, result, log >>
    /\ UNCHANGED caller

\* Existing_scanProject is entered: the empty structure is built and
\* filepath.Walk starts at the root.
Call ==
    /\ pc = "call"
    /\ structure' = ProjectStructure(<< >>, << >>, EmptyMap)
    /\ pending' = WalkOrder(Entries(fs.files))
    /\ pc' = "walk"
    /\ UNCHANGED << fs, err, parsed, result, log >>
    /\ UNCHANGED caller

\* Visit with the walk going on after an error: the first error is kept
\* and the remaining entries are still handed to the callback.
Visit_KeepGoing ==
    /\ pc = "walk"
    /\ pending # << >>
    /\ LET e    == Head(pending)
           path == PathOf(e)
           werr == IF e = fs.bad THEN PathError(path) ELSE NoErr
           info == [Name |-> BaseName(e), IsDir |-> e.isDir]
           r    == WalkFn(path, info, werr, structure)
           rest == IF r.ret = SkipDir THEN SkipBelow(Tail(pending), e) ELSE Tail(pending)
       IN  /\ structure' = r.st
           /\ parsed' = parsed \o r.opened
           /\ pending' = rest
           /\ err' = IF r.ret \in {NoErr, SkipDir} \/ err # NoErr THEN err ELSE r.ret
           /\ pc' = IF rest = << >> THEN "return" ELSE "walk"
    /\ UNCHANGED << fs, result, log >>
    /\ UNCHANGED caller

\* Visit with a file that failed to parse handed to the callback a second
\* time before the error is returned.
Visit_Retry ==
    /\ pc = "walk"
    /\ pending # << >>
    /\ LET e    == Head(pending)
           path == PathOf(e)
           werr == IF e = fs.bad THEN PathError(path) ELSE NoErr
           info == [Name |-> BaseName(e), IsDir |-> e.isDir]
       IN  \E r \in { WalkFn(path, info, werr, structure) } :
           LET rest == IF r.ret = SkipDir THEN SkipBelow(Tail(pending), e)
                       ELSE Tail(pending)
           IN
           /\ structure' = r.st
           /\ parsed' = parsed \o r.opened
           /\ IF r.ret \in {NoErr, SkipDir}
              THEN /\ pending' = rest
                   /\ err' = NoErr
                   /\ pc' = IF rest = << >> THEN "return" ELSE "walk"
              ELSE /\ pending' = pending
                   /\ err' = r.ret
                   /\ pc' = IF r.ret = Panic THEN "panicked"
                            ELSE IF r.opened # << >> /\ err = NoErr THEN "walk"
                            ELSE "return"
    /\ UNCHANGED << fs, result, log >>
    /\ UNCHANGED caller

\* filepath.Walk hands the next entry to the callback and acts on what
\* the callback returns.
Visit ==
    /\ pc = "walk"
    /\ pending # << >>
    /\ LET e    == Head(pending)
           path == PathOf(e)
           werr == IF e = fs.bad THEN PathError(path) ELSE NoErr
           info == [Name |-> BaseName(e), IsDir |-> e.isDir]
       IN  \E r \in { WalkFn(path, info, werr, structure) } :
           LET rest == IF r.ret = SkipDir THEN SkipBelow(Tail(pending), e)
                       ELSE Tail(pending)
           IN
           /\ structure' = r.st
           /\ parsed' = parsed \o r.opened
           /\ IF r.ret \in {NoErr, SkipDir}
              THEN /\ pending' = rest
                   /\ err' = NoErr
                   /\ pc' = IF rest = << >> THEN "return" ELSE "walk"
              ELSE /\ pending' = pending
                   /\ err' = r.ret
                   /\ pc' = IF r.ret = Panic THEN "panicked" ELSE "return"
    /\ UNCHANGED << fs, result, log >>
    /\ UNCHANGED caller

\* return structure, err
Return ==
    /\ pc = "return"
    /\ result' = ReturnValue(structure, err)
    /\ log' = Append(log, [fs |-> fs, result |-> result'])
    /\ pc' = "done"
    /\ UNCHANGED << fs, pending, structure, err, parsed >>
    /\ UNCHANGED caller

Next == Call \/ Visit \/ Return

Spec == Init /\ [][Next]_vars

\* The trees of a process that scans more than once.
RepeatTrees ==
    UNION { { f \in [L -> Sources] :
                \A l \in L : f[l] \in (IF l[2] = S_a_go THEN { "broken", "main_helper" }
                                                        ELSE { "broken", "store_put" }) }
            : L \in SubsetsUpTo({ << << >>, S_a_go >>, << << S_sub >>, S_b_go >>,
                                  << << S_dotgit >>, S_a_go >> }, MaxFiles) }

InitRepeat ==
    /\ \E r \in RootDirs, f \in RepeatTrees : fs = [root |-> r, files |-> f, bad |-> NoEntry]
    /\ pending = << >>
    /\ structure = NilSnapshot
    /\ err = NoErr
    /\ parsed = << >>
    /\ result = ReturnValue(NilSnapshot, NoErr)
    /\ log = << >>
    /\ pc = "call"
    /\ CallerIdle

\* The caller invokes Existing_scanProject once more, on the same tree or
\* on another one.
Again ==
    /\ pc = "done"
    /\ Len(log) < MaxScans
    /\ \E r \in RootDirs, f \in RepeatTrees : fs' = [root |-> r, files |-> f, bad |-> NoEntry]
    /\ pending' = << >>
    /\ err' = NoErr
    /\ parsed' = << >>
    /\ pc' = "call"
    /\ UNCHANGED << structure, result, log >>
    /\ UNCHANGED caller

NextRepeat == Next \/ Again

SpecRepeat == InitRepeat /\ [][NextRepeat]_vars

\* The root directories a scan may be given: ".", a hidden directory,
\* "vendor", with a trailing separator and below another directory, and
\* an ordinary one.
NamedRoots ==
    { S_dot, S_dotgit, S_vendor, S_vendor \o S_slash, S_proj \o S_slash \o S_vendor, S_proj }

InitRoot ==
    /\ \E r \in NamedRoots, f \in RepeatTrees : fs = [root |-> r, files |-> f, bad |-> NoEntry]
    /\ pending = << >>
    /\ structure = NilSnapshot
    /\ err = NoErr
    /\ parsed = << >>
    /\ result = ReturnValue(NilSnapshot, NoErr)
    /\ log = << >>
    /\ pc = "call"
    /\ CallerIdle

\* The scan of trees under roots of every kind of name.
SpecRoot == InitRoot /\ [][Next]_vars

\* The scan of trees of malformed files.
SpecMalformed == InitMalformed /\ [][Next]_vars

----------------------------------------------------------------------------
(* The scanned tree as the claims describe it *)

\* A name that begins with '.' or is exactly "vendor".
SkippedName(name) == (name # << >> /\ name[1] = ".") \/ name = S_vendor

\* The entry lies beneath (at any depth) a skipped directory below the root.
BeneathSkipped(e) == \E n \in 1..(Len(e.comps) - 1) : SkippedName(e.comps[n])

EndsWith(name, ext) == HasSuffix(name, ext)

\* A candidate source file: a non-test .go file outside skipped directories.
IsCandidate(e) ==
    /\ ~e.isDir
    /\ EndsWith(e.comps[Len(e.comps)], S_dotgo)
    /\ ~EndsWith(e.comps[Len(e.comps)], S_testgo)
    /\ ~BeneathSkipped(e)

Candidates == { e \in FileEntries(fs.files) : IsCandidate(e) }
TestFiles  == { e \in FileEntries(fs.files) : EndsWith(e.comps[Len(e.comps)], S_testgo) }

\* The top-level function and method declarations of a parsed file.
TopFuncs(src) == SelectSeq(src.Decls, LAMBDA d : d.node = "FuncDecl")

AllCandidatesValid == \A e \in Candidates : SrcOf(fs.files, e).ok

\* Every entry the walk reaches can be read.
WalkReadable == fs.bad = NoEntry \/ BeneathSkipped(fs.bad)

Range(seq) == { seq[i] : i \in 1..Len(seq) }

\* The paths listed under some package.
GroupedPaths(st) == UNION { Range(st.Packages[k]) : k \in DOMAIN st.Packages }

RECURSIVE SumLens(_, _)
SumLens(m, keys) ==
    IF keys = {} THEN 0
    ELSE LET k == CHOOSE k \in keys : TRUE
         IN  Len(m[k]) + SumLens(m, keys \ {k})

Done == pc = "done"

----------------------------------------------------------------------------
(* Claims *)

\* C1: when a candidate file fails to parse, the caller never receives an
\* error together with a snapshot that holds the declarations of the files
\* visited before the failure: an error comes with no snapshot at all.
C1_NoPartialSnapshot ==
    (Done /\ result.err.kind = "parse") =>
        (result.snapshot.isNil \/ result.snapshot.Functions = << >>)

\* The declaration of the file at path that starts on the given line.
DeclAt(path, line) ==
    LET src == ParseFile(path)
    IN  CHOOSE d \in Range(TopFuncs(src)) : d.Line = line

HasPointerReceiver(d) ==
    /\ ~d.Recv.isNil
    /\ Len(d.Recv.List) > 0
    /\ d.Recv.List[1].Type.node = "StarExpr"
    /\ d.Recv.List[1].Type.X[1].node = "Ident"

\* C2: every method declared with a pointer receiver, func (w *Widget) Name(),
\* yields a Declaration with IsMethod = true and Receiver = "Widget".
C2_PointerReceiverStripped ==
    \A i \in 1..Len(structure.Functions) :
        LET fn == structure.Functions[i]
            d  == DeclAt(fn.File, fn.Line)
        IN  HasPointerReceiver(d) =>
                fn.IsMethod /\ fn.Receiver = d.Recv.List[1].Type.X[1].Name

\* What the claim expects of one declaration: file, name, line, has a receiver.
ExpectedDecls ==
    UNION { { << PathOf(e), d.Name, d.Line, ~d.Recv.isNil >> :
                d \in Range(TopFuncs(SrcOf(fs.files, e))) } : e \in Candidates }

Shape(fn) == << fn.File, fn.Name, fn.Line, fn.IsMethod >>

\* C3: when every candidate file is valid (and every entry the walk reaches
\* is readable) the scan succeeds and the snapshot holds exactly one
\* Declaration per top-level function or method of every candidate file,
\* none missing, none duplicated, none from elsewhere, with IsMethod true
\* exactly for the declarations that have a receiver.
C3_OneDeclarationPerFunction ==
    (Done /\ AllCandidatesValid /\ WalkReadable) =>
        /\ result.err = NoErr
        /\ ~result.snapshot.isNil
        /\ \A i \in 1..Len(result.snapshot.Functions) :
               Shape(result.snapshot.Functions[i]) \in ExpectedDecls
        /\ \A x \in ExpectedDecls :
               Cardinality({ i \in 1..Len(result.snapshot.Functions) :
                               Shape(result.snapshot.Functions[i]) = x }) = 1

C3_Witness ==
    /\ Done /\ AllCandidatesValid /\ WalkReadable
    /\ Cardinality(Candidates) = 2
    /\ Len(result.snapshot.Functions) = 4
    /\ \E i, j \in 1..4 : /\ result.snapshot.Functions[i].IsMethod
                          /\ ~result.snapshot.Functions[j].IsMethod
                          /\ result.snapshot.Functions[j].Name = S_helper


\* The snapshot a claim speaks of: the one returned, and before the return
\* the one under construction.
Snap == IF Done THEN result.snapshot ELSE structure

\* C4: no file anywhere beneath a directory whose name begins with '.' or
\* is "vendor" contributes a Declaration, a Files entry or a Packages entry;
\* the directory is not descended into (nothing beneath it is handed to the
\* callback or parsed), so a file inside it never makes the scan fail.
C4_SkippedDirsContributeNothing ==
    /\ \A e \in Entries(fs.files) :
          BeneathSkipped(e) =>
              /\ PathOf(e) \notin Range(parsed)
              /\ PathOf(e) \notin Range(Snap.Files)
              /\ PathOf(e) \notin GroupedPaths(Snap)
              /\ \A i \in 1..Len(Snap.Functions) : Snap.Functions[i].File # PathOf(e)
              /\ err.path # PathOf(e)
              /\ result.err.path # PathOf(e)
    /\ (pc = "walk" /\ pending # << >>) => ~BeneathSkipped(Head(pending))

C4_Witness ==
    /\ Done
    /\ result.err = NoErr
    /\ result.snapshot.Functions # << >>
    /\ \E e \in FileEntries(fs.files) :
          /\ BeneathSkipped(e)
          /\ Len(e.comps) = 3
          /\ e.comps[3] = S_a_go
          /\ ~SrcOf(fs.files, e).ok

\* C5: no Declaration has a File ending in "_test.go", no such file appears
\* in Files or Packages, test files are never parsed, and a syntactically
\* invalid test file never makes the scan fail.
C5_TestFilesExcluded ==
    /\ \A i \in 1..Len(Snap.Functions) : ~HasSuffix(Snap.Functions[i].File, S_testgo)
    /\ \A q \in Range(Snap.Files) \cup GroupedPaths(Snap) \cup Range(parsed) :
          ~HasSuffix(q, S_testgo)
    /\ \A e \in TestFiles : /\ err # ErrorList(PathOf(e))
                            /\ result.err # ErrorList(PathOf(e))

C5_Witness ==
    /\ Done
    /\ result.err = NoErr
    /\ result.snapshot.Functions # << >>
    /\ \E e \in TestFiles : ~BeneathSkipped(e) /\ ~SrcOf(fs.files, e).ok

\* C6: for every scanned file that declares package P and contains at least
\* one function or method, every Declaration from that file has Package = P
\* and the file's path is an element of Packages[P].
C6_PackageGrouping ==
    \A q \in Range(Snap.Files) :
        LET src == ParseFile(q)
        IN  TopFuncs(src) # << >> =>
                /\ \A i \in 1..Len(Snap.Functions) :
                       Snap.Functions[i].File = q => Snap.Functions[i].Package = src.Name
                /\ src.Name \in DOMAIN Snap.Packages
                /\ q \in Range(Snap.Packages[src.Name])

C6_Witness ==
    /\ Done
    /\ result.err = NoErr
    /\ \E q \in Range(result.snapshot.Files) :
          /\ ParseFile(q) = SrcStorePut
          /\ Cardinality({ i \in 1..Len(result.snapshot.Functions) :
                             /\ result.snapshot.Functions[i].File = q
                             /\ result.snapshot.Functions[i].Package = S_store }) = 2
          /\ q \in Range(result.snapshot.Packages[S_store])

\* C7: a candidate file that parses successfully but holds no function or
\* method is appended to Files, appears in no list of Packages and creates
\* no Packages key (every key is the package of a listed file that has
\* functions), so Files can be longer than all Packages lists together.
C7_EmptyFilesNotGrouped ==
    /\ \A e \in Candidates :
          LET src == SrcOf(fs.files, e)
          IN  (src.ok /\ TopFuncs(src) = << >> /\ PathOf(e) \in Range(parsed)) =>
                  /\ PathOf(e) \in Range(Snap.Files)
                  /\ PathOf(e) \notin GroupedPaths(Snap)
    /\ \A k \in DOMAIN Snap.Packages :
          \E q \in Range(Snap.Packages[k]) :
              /\ TopFuncs(ParseFile(q)) # << >>
              /\ ParseFile(q).Name = k
    /\ Len(Snap.Files) >= SumLens(Snap.Packages, DOMAIN Snap.Packages)

C7_Witness ==
    /\ Done
    /\ result.err = NoErr
    /\ Len(result.snapshot.Files) = 2
    /\ SumLens(result.snapshot.Packages, DOMAIN result.snapshot.Packages) = 1
    /\ \E e \in Candidates : SrcOf(fs.files, e) = SrcNoFuncs

\* C8: for a tree without candidate source file (no .go files, or only test
\* files and files inside skipped directories), every entry the walk reaches
\* being readable, the scan returns a snapshot whose Functions, Files and
\* Packages are all empty, together with a nil error.
C8_EmptyTreeEmptySnapshot ==
    (Done /\ Candidates = {} /\ WalkReadable) =>
        /\ result.err = NoErr
        /\ ~result.snapshot.isNil
        /\ result.snapshot.Functions = << >>
        /\ result.snapshot.Files = << >>
        /\ DOMAIN result.snapshot.Packages = {}

C8_Witness ==
    /\ Done /\ Candidates = {} /\ WalkReadable
    /\ \E e \in TestFiles : ~BeneathSkipped(e) /\ SrcOf(fs.files, e) = SrcMainHelper
    /\ \E e \in FileEntries(fs.files) :
          BeneathSkipped(e) /\ e.comps[Len(e.comps)] = S_a_go /\ SrcOf(fs.files, e).ok
    /\ result.err = NoErr

\* a.go (package main: main, helper) and sub/b.go (package store: (s *Store) Get).
ScenarioFiles ==
    (<< << >>, S_a_go >> :> "main_helper") @@ (<< << S_sub >>, S_b_go >> :> "store_get")

HasDecl(st, name, pkg, isMethod, receiver) ==
    \E i \in 1..Len(st.Functions) :
        /\ st.Functions[i].Name = name
        /\ st.Functions[i].Package = pkg
        /\ st.Functions[i].IsMethod = isMethod
        /\ st.Functions[i].Receiver = receiver

\* C9: scanning a.go (package main, functions main and helper) and sub/b.go
\* (package store, method (s *Store) Get) yields exactly 3 Declarations: main
\* and helper as free functions of package main, Get as a method with
\* receiver "Store" of package store; Files holds both paths, Packages["main"]
\* holds a.go's path and Packages["store"] holds sub/b.go's path.
C9_ExampleScenario ==
    (Done /\ fs.files = ScenarioFiles /\ fs.bad = NoEntry) =>
        LET st == result.snapshot
            a  == JoinPath(fs.root, << S_a_go >>)
            b  == JoinPath(fs.root, << S_sub, S_b_go >>)
        IN  /\ result.err = NoErr
            /\ Len(st.Functions) = 3
            /\ HasDecl(st, S_main, S_main, FALSE, S_empty)
            /\ HasDecl(st, S_helper, S_main, FALSE, S_empty)
            /\ HasDecl(st, S_Get, S_store, TRUE, S_Store)
            /\ Range(st.Files) = {a, b}
            /\ a \in Range(MapGet(st.Packages, S_main))
            /\ b \in Range(MapGet(st.Packages, S_store))

\* The entry cannot be read by the walk, or is a candidate that does not parse.
Failing(e) == e = fs.bad \/ (IsCandidate(e) /\ ~SrcOf(fs.files, e).ok)

\* C10: a directory-walk error on any entry the walk reaches and a parse
\* error on any candidate file both make the scan return one non-nil error,
\* and that error carries the path of an entry or file that failed.
C10_ErrorNamesFailingPath ==
    Done =>
        /\ (\E e \in Entries(fs.files) : Failing(e) /\ ~BeneathSkipped(e)) =>
               result.err.kind \in {"walk", "parse"}
        /\ result.err # NoErr =>
               \E e \in Entries(fs.files) :
                   /\ Failing(e)
                   /\ result.err.path = PathOf(e)
                   /\ result.err.kind = IF e = fs.bad THEN "walk" ELSE "parse"

C10_Witness ==
    /\ Done
    /\ result.err.kind = "parse"
    /\ Len(result.snapshot.Files) = 1
    /\ result.err.path = JoinPath(fs.root, << S_sub, S_b_go >>)


\* C11: for every candidate file whose contents are malformed (empty, cut
\* short, unreadable) or hold an empty receiver list, the scan never panics:
\* it never reads the package name of a failed parse nor the first receiver
\* of an empty list, and when a malformed candidate is reached the scan ends
\* by returning an error value.
C11_MalformedNeverPanics ==
    /\ pc # "panicked"
    /\ err # Panic
    /\ Done =>
          /\ result.err # Panic
          /\ (\E e \in Candidates : ~SrcOf(fs.files, e).ok) => result.err.kind \in {"walk", "parse"}

C11_Witness ==
    /\ Done
    /\ result.err.kind = "parse"
    /\ \E e \in Candidates : /\ SrcOf(fs.files, e) = NilFile
                             /\ result.err.path = PathOf(e)
    /\ \E i \in 1..Len(result.snapshot.Functions) :
          /\ result.snapshot.Functions[i].IsMethod
          /\ result.snapshot.Functions[i].Receiver = S_empty
          /\ DeclAt(result.snapshot.Functions[i].File, result.snapshot.Functions[i].Line).Recv.List = << >>


NoDuplicates(seq) == \A i, j \in 1..Len(seq) : i # j => seq[i] # seq[j]

\* C12: in every snapshot returned without error each Declaration's File is
\* an element of Files, all Declarations of one File have the same Package,
\* and each path occurs at most once in Files and in at most one Packages
\* list, at most once in that list.
C12_SnapshotWellFormed ==
    (Done /\ result.err = NoErr) =>
        LET st == result.snapshot
        IN  /\ \A i \in 1..Len(st.Functions) : st.Functions[i].File \in Range(st.Files)
            /\ \A i, j \in 1..Len(st.Functions) :
                   st.Functions[i].File = st.Functions[j].File =>
                       st.Functions[i].Package = st.Functions[j].Package
            /\ NoDuplicates(st.Files)
            /\ \A k \in DOMAIN st.Packages : NoDuplicates(st.Packages[k])
            /\ \A k, l \in DOMAIN st.Packages :
                   k # l => Range(st.Packages[k]) \cap Range(st.Packages[l]) = {}

C12_Witness ==
    /\ Done
    /\ result.err = NoErr
    /\ Len(result.snapshot.Functions) = 3
    /\ Len(result.snapshot.Files) = 2
    /\ S_store \in DOMAIN result.snapshot.Packages
    /\ Len(result.snapshot.Packages[S_store]) = 2


\* The declarations the claims expect of a scan of the tree f.
ExpectedIn(f) ==
    UNION { { << JoinPath(f.root, e.comps), d.Name, d.Line, ~d.Recv.isNil >> :
                d \in Range(TopFuncs(SrcOf(f.files, e))) }
            : e \in { x \in FileEntries(f.files) : IsCandidate(x) } }

CandidatePathsIn(f) ==
    { JoinPath(f.root, e.comps) : e \in { x \in FileEntries(f.files) : IsCandidate(x) } }

\* C13: scan invocations are independent: two invocations on the same tree
\* return equal results, and what an invocation returns holds nothing from
\* an earlier invocation: every Declaration and every path in it comes from
\* the tree of that invocation, once.
C13_ScansIndependent ==
    /\ \A i, j \in 1..Len(log) : log[i].fs = log[j].fs => log[i].result = log[j].result
    /\ \A i \in 1..Len(log) :
          LET st == log[i].result.snapshot
          IN  /\ \A k \in 1..Len(st.Functions) : Shape(st.Functions[k]) \in ExpectedIn(log[i].fs)
              /\ \A k, l \in 1..Len(st.Functions) :
                     k # l => Shape(st.Functions[k]) # Shape(st.Functions[l])
              /\ Range(st.Files) \cup GroupedPaths(st) \subseteq CandidatePathsIn(log[i].fs)
              /\ NoDuplicates(st.Files)

C13_Witness ==
    /\ Len(log) = 2
    /\ log[1].fs # log[2].fs
    /\ log[1].result.err = NoErr
    /\ log[2].result.err = NoErr
    /\ Len(log[1].result.snapshot.Functions) = 4
    /\ Len(log[2].result.snapshot.Functions) = 2

----------------------------------------------------------------------------
(* BTFlowcharts *)

Tools == { "go-callvis", "goda", "dot", "goplantuml" }

\* The tools BTFlowcharts looks up before it generates anything, in the
\* order of its ensureTool calls.
RequiredTools == << "go-callvis", "goda", "dot" >>

Nil == [kind |-> "nil", what |-> ""]
\* fmt.Errorf("<kind>: %w", ...): the error BTFlowcharts returns.
Errorf(kind, what) == [kind |-> kind, what |-> what]

\* exec.LookPath(name) over the tools on PATH.
ensureTool(name, path) ==
    IF name \in path THEN Nil ELSE Errorf("missing tool", name)

\* The first failing ensureTool call of the three, Nil when none fails.
EnsureRequired(path) ==
    LET missing == { i \in 1..Len(RequiredTools) : ensureTool(RequiredTools[i], path) # Nil }
        first   == CHOOSE i \in missing : \A j \in missing : i <= j
    IN  IF missing = {} THEN Nil ELSE ensureTool(RequiredTools[first], path)

\* The graphs go-callvis is run for.
CallvisGraphs(migrations) ==
    { "graph.svg", "graph_by_pkg.svg", "graph_full.svg" }
        \cup (IF migrations THEN { "graph_migrations.svg" } ELSE {})

\* The reports of Existing_generateUpdatedReports, in the order written.
DynamicReports ==
    << "function_inventory", "dynamic_development_sequence", "project_status",
       "current_application_brain", "current_store_connections" >>

\* The diagrams written whatever the scan gave.
StaticDiagrams == { "architecture", "function_flow_analysis" }

ScanFailedWarning == "Project scan failed (continuing with static charts)"
ReportsFailedWarning == "Dynamic reports failed (continuing with static charts)"
ReportsGenerated == "Generated dynamic reports"
SkippingUML == "Note: skipping UML generation (goplantuml not found)"

\* The trees BTFlowcharts is run on.
FlowTrees ==
    UNION { { f \in [L -> Sources] :
                \A l \in L : f[l] \in (IF l[2] = S_a_go THEN { "broken", "main_helper" }
                                                        ELSE { "broken", "store_put" }) }
            : L \in SubsetsUpTo({ << << >>, S_a_go >>, << << S_sub >>, S_b_go >> }, MaxFiles) }

InitFlow ==
    /\ \E r \in RootDirs, f \in FlowTrees :
          \E b \in {NoEntry} \cup Entries(f) :
              fs = [root |-> r, files |-> f, bad |-> b]
    /\ pending = << >>
    /\ structure = NilSnapshot
    /\ err = NoErr
    /\ parsed = << >>
    /\ result = ReturnValue(NilSnapshot, NoErr)
    /\ log = << >>
    /\ pc = "idle"
    /\ \E root \in { S_empty, S_proj }, path \in SUBSET Tools, uml \in BOOLEAN, mig \in BOOLEAN :
          bt = [pc |-> "start", projectRoot |-> root, path |-> path, GenerateUML |-> uml,
                migrations |-> mig, out |-> {}, printed |-> {}, called |-> {},
                opened |-> FALSE,
                ret |-> Nil]
    /\ PhaseIdle
    /\ EvalIdle
    /\ MenuIdle
    /\ ReportsIdle
    /\ HelpersIdle

\* return <error>
BT_ReturnError(e) ==
    bt' = [bt EXCEPT !.pc = "returned", !.ret = e]

\* The working directory is resolved and the output directory is made.
BT_Start ==
    /\ bt.pc = "start"
    /\ \E getwd \in BOOLEAN, mkdir \in BOOLEAN :
          IF bt.projectRoot = S_empty /\ ~getwd
          THEN BT_ReturnError(Errorf("getwd", ""))
          ELSE IF ~mkdir
          THEN BT_ReturnError(Errorf("mkdir", ""))
          ELSE bt' = [bt EXCEPT !.pc = "tools"]
    /\ UNCHANGED scanner
    /\ UNCHANGED exceptBT

\* ensureTool("go-callvis"), ensureTool("goda"), ensureTool("dot")
BT_EnsureTools ==
    /\ bt.pc = "tools"
    /\ LET e == EnsureRequired(bt.path)
       IN  IF e # Nil THEN BT_ReturnError(e)
                      ELSE bt' = [bt EXCEPT !.pc = "callvis"]
    /\ UNCHANGED scanner
    /\ UNCHANGED exceptBT

\* The runs of go-callvis: a failing run is reported and passed over.
BT_Callvis ==
    /\ bt.pc = "callvis"
    /\ \E failed \in SUBSET CallvisGraphs(bt.migrations) :
          bt' = [bt EXCEPT !.pc = "goda",
                           !.out = @ \cup (CallvisGraphs(bt.migrations) \ failed),
                           !.printed = @ \cup { "go-callvis failed (continuing)" : g \in failed }]
    /\ UNCHANGED scanner
    /\ UNCHANGED exceptBT

\* writeFileFromCmd(wd, goda graph ./..., pkg-deps.dot)
BT_Goda ==
    /\ bt.pc = "goda"
    /\ \E ok \in BOOLEAN :
          IF ok THEN bt' = [bt EXCEPT !.pc = "dot", !.out = @ \cup { "pkg-deps.dot" }]
                ELSE BT_ReturnError(Errorf("write dot", ""))
    /\ UNCHANGED scanner
    /\ UNCHANGED exceptBT

\* runInDir(wd, dot -Tsvg pkg-deps.dot -o pkg-deps.svg)
BT_Dot ==
    /\ bt.pc = "dot"
    /\ \E ok \in BOOLEAN :
          IF ok THEN bt' = [bt EXCEPT !.pc = "uml", !.out = @ \cup { "pkg-deps.svg" }]
                ELSE BT_ReturnError(Errorf("dot convert", ""))
    /\ UNCHANGED scanner
    /\ UNCHANGED exceptBT

\* The PlantUML class diagram, when asked for and goplantuml is there.
BT_UML ==
    /\ bt.pc = "uml"
    /\ IF ~bt.GenerateUML
       THEN bt' = [bt EXCEPT !.pc = "scan"]
       ELSE IF ensureTool("goplantuml", bt.path) # Nil
       THEN bt' = [bt EXCEPT !.pc = "scan", !.printed = @ \cup { SkippingUML }]
       ELSE \E ok \in BOOLEAN, rendered \in BOOLEAN :
               IF ~ok
               THEN BT_ReturnError(Errorf("goplantuml", ""))
               ELSE bt' = [bt EXCEPT !.pc = "scan",
                                     !.out = @ \cup { "types.puml" }
                                               \cup (IF rendered THEN { "types.svg" } ELSE {}),
                                     !.printed = @ \cup (IF rendered THEN {}
                                                         ELSE { "Note: types.puml not rendered" })]
    /\ UNCHANGED scanner
    /\ UNCHANGED exceptBT

\* structure, err := Existing_scanProject(wd)
BT_Scan ==
    /\ bt.pc = "scan"
    /\ pc = "idle"
    /\ pc' = "call"
    /\ bt' = [bt EXCEPT !.pc = "scanning"]
    /\ UNCHANGED << fs, pending, structure, err, parsed, result, log >>
    /\ UNCHANGED exceptBT

\* Existing_generateUpdatedReports writes its reports in order and
\* returns the first error: n reports were written.
ReportsOutcome(n) ==
    [out |-> { DynamicReports[i] : i \in 1..n },
     err |-> IF n = Len(DynamicReports) THEN Nil ELSE Errorf("write report", "")]

\* The scan returned, with an error, and the error is returned.
BT_Reports_ReturnScanError ==
    /\ bt.pc = "scanning"
    /\ pc = "done"
    /\ IF result.err # NoErr
       THEN BT_ReturnError(Errorf("scan", ""))
       ELSE \E n \in 0..Len(DynamicReports) :
               LET r == ReportsOutcome(n)
               IN  bt' = [bt EXCEPT !.pc = "static",
                                    !.out = @ \cup r.out,
                                    !.printed = @ \cup { IF r.err # Nil THEN ReportsFailedWarning
                                                                        ELSE ReportsGenerated }]
    /\ UNCHANGED scanner
    /\ UNCHANGED exceptBT

\* The scan returned: a failed scan is reported, a successful one is
\* handed to Existing_generateUpdatedReports, whose failure is reported.
BT_Reports ==
    /\ bt.pc = "scanning"
    /\ pc = "done"
    /\ IF result.err # NoErr
       THEN bt' = [bt EXCEPT !.pc = "static", !.printed = @ \cup { ScanFailedWarning }]
       ELSE \E n \in 0..Len(DynamicReports) :
               LET r == ReportsOutcome(n)
               IN  bt' = [bt EXCEPT !.pc = "static",
                                    !.out = @ \cup r.out,
                                    !.printed = @ \cup { IF r.err # Nil THEN ReportsFailedWarning
                                                                        ELSE ReportsGenerated }]
    /\ UNCHANGED scanner
    /\ UNCHANGED exceptBT

\* Existing_WriteArchitectureDiagram and AIAd_WriteFunctionFlowAnalysis are
\* called and their errors dropped.
BT_Static ==
    /\ bt.pc = "static"
    /\ \E failed \in SUBSET StaticDiagrams :
          bt' = [bt EXCEPT !.pc = "open",
                           !.out = @ \cup (StaticDiagrams \ failed),
                           !.called = StaticDiagrams]
    /\ UNCHANGED scanner
    /\ UNCHANGED exceptBT

\* openAllCharts(outDir); return nil
BT_Open ==
    /\ bt.pc = "open"
    /\ bt' = [bt EXCEPT !.pc = "returned", !.opened = TRUE, !.ret = Nil]
    /\ UNCHANGED scanner
    /\ UNCHANGED exceptBT

NextFlow ==
    \/ BT_Start \/ BT_EnsureTools \/ BT_Callvis \/ BT_Goda \/ BT_Dot \/ BT_UML
    \/ BT_Scan \/ Call \/ Visit \/ Return
    \/ BT_Reports \/ BT_Static \/ BT_Open

SpecFlow == InitFlow /\ [][NextFlow]_vars

----------------------------------------------------------------------------
(* BTFlowcharts and a failed scan *)

\* The scan BTFlowcharts made has returned an error.
ScanFailedInFlow == pc = "done" /\ result.err # NoErr

\* C14: when the project scan fails inside BTFlowcharts, BTFlowcharts
\* prints the scan warning, writes none of the scanner-derived reports,
\* and returns only after calling the writers of the static diagrams and
\* opening the charts, with a nil error: the scan error is never returned.
C14_ScanFailureTolerated ==
    ScanFailedInFlow =>
        /\ bt.pc # "scanning" =>
              /\ ScanFailedWarning \in bt.printed
              /\ bt.out \cap Range(DynamicReports) = {}
              /\ ReportsGenerated \notin bt.printed
        /\ bt.pc \in { "open", "returned" } => bt.called = StaticDiagrams
        /\ bt.pc = "returned" => bt.opened /\ bt.ret = Nil

\* BTFlowcharts has returned after a scan that failed on a file that
\* does not parse.
C14_Witness ==
    /\ ScanFailedInFlow
    /\ result.err.kind = "parse"
    /\ bt.pc = "returned"
    /\ bt.opened
    /\ "architecture" \in bt.out

----------------------------------------------------------------------------
(* BTFlowcharts and the tools on PATH *)

\* The errors of BTFlowcharts that a missing tool does not explain.
OtherFailures == { "getwd", "mkdir", "write dot", "dot convert", "goplantuml" }

\* C19: go-callvis, goda, goplantuml and dot are optional: a run of
\* BTFlowcharts with one of them missing from PATH, and nothing else
\* failing, returns nil after scanning the project and calling the
\* writers of the static diagrams.
C19_ToolsOptional ==
    (bt.pc = "returned" /\ bt.path # Tools /\ bt.ret.kind \notin OtherFailures) =>
        /\ bt.ret = Nil
        /\ pc = "done"
        /\ bt.called = StaticDiagrams

----------------------------------------------------------------------------
(* Existing_determinePhase *)

S_database == << "d", "a", "t", "a", "b", "a", "s", "e" >>
S_Open     == << "O", "p", "e", "n" >>
S_Migrate  == << "M", "i", "g", "r", "a", "t", "e" >>
S_test     == << "t", "e", "s", "t" >>
S_app      == << "a", "p", "p" >>
S_handler  == << "h", "a", "n", "d", "l", "e", "r" >>
S_routes   == << "r", "o", "u", "t", "e", "s" >>
S_Ex10     == << "E", "x", "1", "0" >>
\* The store rule tested before the foundation rule.
Existing_determinePhase_StoreFirst(fn) ==
    LET fileName == Base(fn.File)
    IN  IF Contains(fileName, S_store) /\ ~Contains(fileName, S_test)
        THEN "Store Layer"
        ELSE IF \/ Contains(fileName, S_database)
                \/ Contains(fn.Name, S_Open)
                \/ Contains(fn.Name, S_Migrate)
        THEN "Foundation"
        ELSE IF Contains(fileName, S_app) THEN "Application Layer"
        ELSE IF Contains(fileName, S_handler) THEN "API Layer"
        ELSE IF Contains(fileName, S_routes) THEN "Routing Layer"
        ELSE IF Contains(fileName, S_main) \/ Contains(fileName, S_Ex10) THEN "Main App"
        ELSE "Data Layer"

\* The application rule tested before the store rule.
Existing_determinePhase_AppFirst(fn) ==
    LET fileName == Base(fn.File)
    IN  IF \/ Contains(fileName, S_database)
           \/ Contains(fn.Name, S_Open)
           \/ Contains(fn.Name, S_Migrate)
        THEN "Foundation"
        ELSE IF Contains(fileName, S_app) THEN "Application Layer"
        ELSE IF Contains(fileName, S_store) /\ ~Contains(fileName, S_test)
        THEN "Store Layer"
        ELSE IF Contains(fileName, S_handler) THEN "API Layer"
        ELSE IF Contains(fileName, S_routes) THEN "Routing Layer"
        ELSE IF Contains(fileName, S_main) \/ Contains(fileName, S_Ex10) THEN "Main App"
        ELSE "Data Layer"

Existing_determinePhase(fn) ==
    LET fileName == Base(fn.File)
    IN  IF \/ Contains(fileName, S_database)
           \/ Contains(fn.Name, S_Open)
           \/ Contains(fn.Name, S_Migrate)
        THEN "Foundation"
        ELSE IF Contains(fileName, S_store) /\ ~Contains(fileName, S_test)
        THEN "Store Layer"
        ELSE IF Contains(fileName, S_app) THEN "Application Layer"
        ELSE IF Contains(fileName, S_handler) THEN "API Layer"
        ELSE IF Contains(fileName, S_routes) THEN "Routing Layer"
        ELSE IF Contains(fileName, S_main) \/ Contains(fileName, S_Ex10) THEN "Main App"
        ELSE "Data Layer"

\* The words the modelled file names are made of.
PhaseWords ==
    { S_database, S_migrate, S_store, S_test, S_app, S_handler, S_routes, S_main, S_Ex10,
      << "x" >> }

\* The words joined by "_".
RECURSIVE JoinWords(_)
JoinWords(ws) ==
    IF Len(ws) = 1 THEN ws[1]
    ELSE ws[1] \o << "_" >> \o JoinWords(Tail(ws))

PhaseFileNames ==
    UNION { { JoinWords(ws) \o S_dotgo : ws \in [1..k -> PhaseWords] } : k \in 1..MaxWords }

\* The directories the modelled files are in.
PhaseDirs ==
    { S_empty, S_proj \o S_slash, S_database \o S_slash, S_proj \o S_slash \o S_store \o S_slash }

\* The modelled declaration names.
PhaseNames ==
    { S_Open, S_Migrate, S_open, S_migrate, S_database, S_Get,
      S_Open \o S_Store, S_New \o S_Migrate \o << "r" >> }

InitPhase ==
    /\ ScannerIdle
    /\ BTIdle
    /\ EvalIdle
    /\ MenuIdle
    /\ ReportsIdle
    /\ HelpersIdle
    /\ \E dir \in PhaseDirs, file \in PhaseFileNames, name \in PhaseNames :
          ph = [pc |-> "call",
                fn |-> FunctionInfo(name, dir \o file, S_empty, 1, FALSE, S_empty, S_empty),
                phase |-> ""]

\* phase := Existing_determinePhase(fn)
DeterminePhase ==
    /\ ph.pc = "call"
    /\ ph' = [ph EXCEPT !.pc = "done", !.phase = Existing_determinePhase(ph.fn)]
    /\ UNCHANGED scanner
    /\ UNCHANGED exceptPhase

NextPhase == DeterminePhase

SpecPhase == InitPhase /\ [][NextPhase]_vars

----------------------------------------------------------------------------
(* The phase rules as the claims state them *)

\* The Declaration's file name: the last element of its path.
FileNameOf(fn) ==
    LET slashes == { i \in 1..Len(fn.File) : fn.File[i] = "/" }
    IN  IF slashes = {} THEN fn.File
        ELSE SubSeq(fn.File, (CHOOSE i \in slashes : \A j \in slashes : j <= i) + 1,
                    Len(fn.File))

Labelled == ph.pc = "done"

\* The Foundation rule as first stated: "database" or "migrate" in the
\* file name or in the declaration name.
FoundationBySubstring(fn) ==
    \E s \in { FileNameOf(fn), fn.Name }, w \in { S_database, S_migrate } : Contains(s, w)

\* The Foundation rule: "database" in the file name, or "Open" or
\* "Migrate" in the declaration name.
FoundationRule(fn) ==
    \/ Contains(FileNameOf(fn), S_database)
    \/ Contains(fn.Name, S_Open)
    \/ Contains(fn.Name, S_Migrate)

\* C15 as first stated: a Declaration whose file name or declaration
\* name contains "database" or "migrate" is labelled Foundation.
C15_FoundationBySubstring ==
    (Labelled /\ FoundationBySubstring(ph.fn)) => ph.phase = "Foundation"

\* C15: a Declaration whose file name contains "database", or whose
\* declaration name contains "Open" or "Migrate", is labelled Foundation,
\* whatever other rules its file name matches.
C15_FoundationRule ==
    (Labelled /\ FoundationRule(ph.fn)) => ph.phase = "Foundation"

\* A Declaration is labelled Foundation for the "database" in its file
\* name, though the file name also matches the store rule.
C15_Witness ==
    /\ Labelled
    /\ ph.phase = "Foundation"
    /\ Contains(FileNameOf(ph.fn), S_database)
    /\ Contains(FileNameOf(ph.fn), S_store)
    /\ ~Contains(ph.fn.Name, S_Open)
    /\ ~Contains(ph.fn.Name, S_Migrate)

\* The rules after Foundation, in order: the label and the substrings of
\* the file name that select it.
LaterRules ==
    << [label |-> "Store Layer",       any |-> { S_store }],
       [label |-> "Application Layer", any |-> { S_app }],
       [label |-> "API Layer",         any |-> { S_handler }],
       [label |-> "Routing Layer",     any |-> { S_routes }],
       [label |-> "Main App",          any |-> { S_main, S_Ex10 }] >>

\* Rule i matches: the store rule only for a file name without "test".
RuleMatches(i, fn) ==
    /\ \E w \in LaterRules[i].any : Contains(FileNameOf(fn), w)
    /\ i = 1 => ~Contains(FileNameOf(fn), S_test)

\* The label the ordered rules give: that of the first rule that matches.
FirstMatch(fn) ==
    LET matching == { i \in 1..Len(LaterRules) : RuleMatches(i, fn) }
    IN  IF FoundationRule(fn) THEN "Foundation"
        ELSE IF matching = {} THEN "Data Layer"
        ELSE LaterRules[CHOOSE i \in matching : \A j \in matching : i <= j].label

\* C16 as first stated: a Declaration that matches no Foundation rule
\* and whose file name contains "store" is labelled Store Layer.
C16_StoreWheneverNamed ==
    (/\ Labelled
     /\ ~FoundationRule(ph.fn)
     /\ ~FoundationBySubstring(ph.fn)
     /\ Contains(FileNameOf(ph.fn), S_store)) => ph.phase = "Store Layer"

\* C16: the rules are applied in the order Foundation, Store Layer,
\* Application Layer, API Layer, Routing Layer, Main App, default Data
\* Layer, and the first that matches gives the label, the store rule
\* matching a file name that contains "store" and does not contain "test":
\* such a Declaration is labelled Store Layer also when its file name
\* contains "app", "handler", "routes" or "main".
C16_FirstMatchWins ==
    Labelled =>
        /\ ph.phase = FirstMatch(ph.fn)
        /\ (/\ ~FoundationRule(ph.fn)
            /\ Contains(FileNameOf(ph.fn), S_store)
            /\ ~Contains(FileNameOf(ph.fn), S_test)) => ph.phase = "Store Layer"

\* app_store.go is labelled Store Layer.
C16_Witness ==
    /\ Labelled
    /\ FileNameOf(ph.fn) = S_app \o << "_" >> \o S_store \o S_dotgo
    /\ ph.fn.Name = S_Get
    /\ ph.phase = "Store Layer"

----------------------------------------------------------------------------
(* ProjectEvaluator *)

S_main_go        == S_main \o S_dotgo
S_docker_compose == << "d", "o", "c", "k", "e", "r", "-", "c", "o", "m", "p", "o", "s", "e", ".", "y", "m", "l" >>
S_dotenv         == << ".", "e", "n", "v" >>
S_util_go        == << "u", "t", "i", "l", ".", "g", "o" >>
S_util_test_go   == << "u", "t", "i", "l", "_", "t", "e", "s", "t", ".", "g", "o" >>

\* The directories the evaluator looks for.
EvalDirs ==
    { "internal", "internal/app", "internal/api", "internal/store",
      "internal/database", "internal/middleware" }

\* The files of a modelled project root.
EvalFiles == { S_main_go, S_go_mod, S_docker_compose, S_dotenv, S_util_go, S_util_test_go }

\* What the evaluator searches the Go files of the root for.
EvalPatterns == { "if err != nil", "log.", "//" }

\* filepath.Glob(projectRoot/*<suffix>)
Glob(layout, suffix) == { f \in layout.files : HasSuffix(f, suffix) }

\* The project layouts: a subdirectory of internal needs internal, and a
\* pattern needs a Go file of the root to be in.
Layouts ==
    { l \in [dirs : SUBSET EvalDirs, files : SUBSET EvalFiles, patterns : SUBSET EvalPatterns] :
        /\ l.dirs # {} => "internal" \in l.dirs
        /\ l.patterns # {} => Glob(l, S_dotgo) # {} }

\* os.Stat(filepath.Join(projectRoot, name)) succeeds.
StatDir(layout, name)  == name \in layout.dirs
StatFile(layout, name) == name \in layout.files

min(a, b) == IF a < b THEN a ELSE b
max(a, b) == IF a > b THEN a ELSE b

ProjectEvaluator_HasTesting(l) == Glob(l, S_testgo) # {}
ProjectEvaluator_HasErrorHandling(l) == "if err != nil" \in l.patterns
ProjectEvaluator_HasLogging(l) == "log." \in l.patterns
ProjectEvaluator_HasDocumentation(l) == "//" \in l.patterns
ProjectEvaluator_HasConfiguration(l) ==
    StatFile(l, S_docker_compose) \/ StatFile(l, S_dotenv)

ProjectEvaluator_AnalyzeStructure(l) ==
    min(15 * Cardinality({ d \in EvalDirs : StatDir(l, d) })
          + 10 * Cardinality({ f \in { S_main_go, S_go_mod, S_docker_compose } : StatFile(l, f) })
          + (IF Glob(l, S_testgo) # {} THEN 10 ELSE 0),
        100)

ProjectEvaluator_AnalyzeCodeQuality(l) ==
    min((IF ProjectEvaluator_HasErrorHandling(l) THEN 25 ELSE 0)
          + (IF ProjectEvaluator_HasLogging(l) THEN 20 ELSE 0)
          + (IF ProjectEvaluator_HasDocumentation(l) THEN 15 ELSE 0)
          + (IF ProjectEvaluator_HasTesting(l) THEN 20 ELSE 0)
          + (IF ProjectEvaluator_HasConfiguration(l) THEN 20 ELSE 0),
        100)

\* The checks of ProjectEvaluator_DetermineProgress in order: whether
\* the check passes, the points it adds and the phase it sets ("" when
\* it leaves the phase alone).
ProgressChecks(l) ==
    << [ok |-> StatFile(l, S_main_go),           add |-> 10, phase |-> "Application Foundation"],
       [ok |-> StatFile(l, S_go_mod),            add |-> 5,  phase |-> ""],
       [ok |-> StatDir(l, "internal"),           add |-> 10, phase |-> "Internal Structure"],
       [ok |-> StatDir(l, "internal/app"),       add |-> 10, phase |-> "Application Layer"],
       [ok |-> StatDir(l, "internal/api"),       add |-> 15, phase |-> "API Layer"],
       [ok |-> StatDir(l, "internal/database"),  add |-> 15, phase |-> "Database Layer"],
       [ok |-> StatDir(l, "internal/store"),     add |-> 15, phase |-> "Store Layer"],
       [ok |-> StatDir(l, "internal/middleware"), add |-> 10, phase |-> "Authentication & Middleware"],
       [ok |-> Glob(l, S_testgo) # {},           add |-> 10, phase |-> "Testing & Deployment"] >>

RECURSIVE ProgressFrom(_, _, _, _)
ProgressFrom(checks, i, phase, completion) ==
    IF i > Len(checks) THEN [phase |-> phase, completion |-> min(completion, 100)]
    ELSE IF ~checks[i].ok THEN ProgressFrom(checks, i + 1, phase, completion)
    ELSE ProgressFrom(checks, i + 1,
                      IF checks[i].phase = "" THEN phase ELSE checks[i].phase,
                      completion + checks[i].add)

ProjectEvaluator_DetermineProgress(l) ==
    ProgressFrom(ProgressChecks(l), 1, "Project Initialization", 0)

ProjectEvaluator_CountIssues(l) ==
    [errors   |-> (IF StatFile(l, S_go_mod) THEN 0 ELSE 1)
                    + (IF StatFile(l, S_main_go) THEN 0 ELSE 1),
     warnings |-> Cardinality({ d \in { "internal", "internal/app", "internal/api" } :
                                  ~StatDir(l, d) })
                    + (IF Glob(l, S_testgo) = {} THEN 1 ELSE 0)]

ProjectEvaluator_ScoreErrorHandling(l) == IF ProjectEvaluator_HasErrorHandling(l) THEN 80 ELSE 20
ProjectEvaluator_ScoreTesting(l)       == IF ProjectEvaluator_HasTesting(l) THEN 85 ELSE 15
ProjectEvaluator_ScoreDocumentation(l) == IF ProjectEvaluator_HasDocumentation(l) THEN 70 ELSE 30
ProjectEvaluator_ScoreConfiguration(l) == IF ProjectEvaluator_HasConfiguration(l) THEN 75 ELSE 25

ProjectEvaluator_CalculateSubScores(status, l) ==
    [ Structure      |-> status.StructureScore,
      CodeQuality    |-> status.QualityScore,
      Progress       |-> status.CompletionPercent,
      ErrorHandling  |-> ProjectEvaluator_ScoreErrorHandling(l),
      Testing        |-> ProjectEvaluator_ScoreTesting(l),
      Documentation  |-> ProjectEvaluator_ScoreDocumentation(l),
      Configuration  |-> ProjectEvaluator_ScoreConfiguration(l) ]

\* weights of ProjectEvaluator_CalculateFinalScore
Weights ==
    [ Structure |-> 25, CodeQuality |-> 30, Progress |-> 25, ErrorHandling |-> 10,
      Testing |-> 5, Documentation |-> 3, Configuration |-> 2 ]

\* The sum over the sub-scores of (score * weight) / 100, each term an
\* integer division.
RECURSIVE WeightedSum(_, _)
WeightedSum(scores, cats) ==
    IF cats = {} THEN 0
    ELSE LET c == CHOOSE x \in cats : TRUE
         IN  (IF c \in DOMAIN Weights THEN (scores[c] * Weights[c]) \div 100 ELSE 0)
               + WeightedSum(scores, cats \ {c})

RatingOf(totalScore) ==
    IF totalScore >= 85 THEN "EXCELLENT"
    ELSE IF totalScore >= 75 THEN "VERY GOOD"
    ELSE IF totalScore >= 65 THEN "GOOD"
    ELSE IF totalScore >= 50 THEN "FAIR"
    ELSE IF totalScore >= 30 THEN "NEEDS IMPROVEMENT"
    ELSE "REQUIRES ATTENTION"

\* The final score with the penalties of 10 per error and 2 per warning.
ProjectEvaluator_CalculateFinalScore_OldPenalties(status) ==
    LET weighted  == WeightedSum(status.SubScores, DOMAIN status.SubScores)
        penalized == weighted - status.ErrorCount * 10 - status.WarningCount * 2
        bonus     == IF status.QualityScore > 0 THEN 10 ELSE 0
        total     == max(0, min(penalized + bonus, 100))
    IN  [score |-> total, rating |-> RatingOf(total)]

ProjectEvaluator_CalculateFinalScore(status) ==
    LET weighted  == WeightedSum(status.SubScores, DOMAIN status.SubScores)
        penalized == weighted - status.ErrorCount * 5 - status.WarningCount * 1
        bonus     == IF status.QualityScore > 0 THEN 10 ELSE 0
        total     == max(0, min(penalized + bonus, 100))
    IN  [score |-> total, rating |-> RatingOf(total)]

ProjectEvaluator_AnalyzeProjectStatus(l) ==
    LET progress == ProjectEvaluator_DetermineProgress(l)
        issues   == ProjectEvaluator_CountIssues(l)
        s1 == [ StructureScore    |-> ProjectEvaluator_AnalyzeStructure(l),
                QualityScore      |-> ProjectEvaluator_AnalyzeCodeQuality(l),
                CurrentPhase      |-> progress.phase,
                CompletionPercent |-> progress.completion,
                ErrorCount        |-> issues.errors,
                WarningCount      |-> issues.warnings ]
        s2 == [ k \in DOMAIN s1 \cup { "SubScores" } |->
                  IF k = "SubScores" THEN ProjectEvaluator_CalculateSubScores(s1, l) ELSE s1[k] ]
        final == ProjectEvaluator_CalculateFinalScore(s2)
    IN  [ k \in DOMAIN s2 \cup { "FinalScore", "Rating" } |->
            IF k = "FinalScore" THEN final.score
            ELSE IF k = "Rating" THEN final.rating
            ELSE s2[k] ]

InitEval ==
    /\ ScannerIdle
    /\ BTIdle
    /\ PhaseIdle
    /\ MenuIdle
    /\ ReportsIdle
    /\ HelpersIdle
    /\ \E l \in Layouts : ev = [pc |-> "call", layout |-> l, status |-> << >>]

\* status := ProjectEvaluator_AnalyzeProjectStatus()
Evaluate ==
    /\ ev.pc = "call"
    /\ ev' = [ev EXCEPT !.pc = "done",
                        !.status = ProjectEvaluator_AnalyzeProjectStatus(ev.layout)]
    /\ UNCHANGED scanner
    /\ UNCHANGED exceptEval

NextEval == Evaluate

SpecEval == InitEval /\ [][NextEval]_vars

----------------------------------------------------------------------------
(* The documented project status *)

DocumentedSubScores ==
    [ Structure |-> 95, CodeQuality |-> 80, Progress |-> 65, ErrorHandling |-> 80,
      Testing |-> 15, Documentation |-> 70, Configuration |-> 75 ]

\* The evaluator has computed the documented sub-scores and phase.
DocumentedStatus ==
    /\ ev.pc = "done"
    /\ ev.status.SubScores = DocumentedSubScores
    /\ ev.status.CurrentPhase = "Authentication & Middleware"

\* C20 as first stated: every layout with the documented sub-scores and
\* phase gets final score 78 and rating VERY GOOD.
C20_DocumentedScore ==
    DocumentedStatus => ev.status.FinalScore = 78 /\ ev.status.Rating = "VERY GOOD"

\* C20: every layout with the documented sub-scores and phase is rated
\* VERY GOOD, with final score 78 when it has internal/api and 77 when
\* internal/api is the directory it lacks (one more warning).
C20_DocumentedScoreByLayout ==
    DocumentedStatus =>
        /\ ev.status.Rating = "VERY GOOD"
        /\ ev.status.FinalScore = IF "internal/api" \in ev.layout.dirs THEN 78 ELSE 77

\* A layout with the documented status and final score 78.
C20_Witness ==
    /\ DocumentedStatus
    /\ ev.status.FinalScore = 78
    /\ ev.status.ErrorCount = 1
    /\ ev.status.WarningCount = 1

----------------------------------------------------------------------------
(* runInteractiveMode *)

\* What the user types at the menu prompt: the listed options, "10"
\* among them, the empty line and something else.
Choices ==
    { "", "0", "1", "2", "3", "4", "5", "6", "7", "8", "9", "10", "11", "12", "99", "x" }

\* What the user types at the "Generate more charts? (y/N)" prompt.
Answers == { "y", "Y", "yes", "Yes", "", "n", "N", "no", "YES" }

InvalidChoice == "Invalid choice"
Goodbye == "Goodbye!"
ScanError == "Error scanning project"

\* if err := f(...); err != nil { print error } else { print success }
Generate(f, failing) ==
    [calls |-> << f >>,
     printed |-> << IF f \in failing THEN "Error generating" ELSE "generated successfully" >>]

\* structure, err := Existing_scanProject(root), then f on the
\* structure; a failed scan is reported and f is not called.
ScanThen(f, failing) ==
    IF "Existing_scanProject" \in failing
    THEN [calls |-> << "Existing_scanProject" >>, printed |-> << ScanError >>]
    ELSE LET g == Generate(f, failing)
         IN  [calls |-> << "Existing_scanProject" >> \o g.calls,
              printed |-> << "Found functions" >> \o g.printed]

Then(a, b) == [calls |-> a.calls \o b.calls, printed |-> a.printed \o b.printed]

\* The functions a choice can call that return an error.
Fallible(choice) ==
    CASE choice = "2"  -> { "BTFlowcharts", "Existing_scanProject", "generateSchemaSpyERD",
                            "generateExistingDiagrams", "Theory2Reality_WriteAllAnalysis" }
      [] choice = "3"  -> { "generateScannerReports" }
      [] choice = "4"  -> { "generateAIAdvisorDiagrams" }
      [] choice = "5"  -> { "generateTheoryDiagrams" }
      [] choice = "6"  -> { "Existing_scanProject" }
      [] choice = "7"  -> { "Existing_scanProject", "generateSchemaSpyERD" }
      [] choice = "8"  -> { "generateExistingDiagrams" }
      [] choice = "9"  -> { "Existing_scanProject", "Theory2Reality_WriteAllAnalysis" }
      [] choice = "11" -> { "AIAdCreate_Exe_WriteAllFunctionDiagrams" }
      [] choice = "12" -> { "ClassModelBuilder_WriteAllTeachingGuides" }
      [] choice = "99" -> { "ProjectEvaluator_WriteAllEvaluations" }
      [] OTHER         -> {}

\* The switch on the choice: the calls made and the lines printed, with
\* the functions in failing returning an error.
Switch(choice, failing) ==
    CASE choice = "1" ->
           [calls |-> << "viewAllCurrentCharts" >>, printed |-> << >>]
      [] choice = "2" ->
           Then(Generate("BTFlowcharts", failing),
           Then(ScanThen("generateSchemaSpyERD", failing),
           Then(Generate("generateExistingDiagrams", failing),
           Then(ScanThen("Theory2Reality_WriteAllAnalysis", failing),
           Then(ScanThen("Theory2Reality_WriteAllAnalysis", failing),
                [calls |-> << >>, printed |-> << "ALL charts generated successfully!" >>])))))
      [] choice = "3" -> Generate("generateScannerReports", failing)
      [] choice = "4" -> Generate("generateAIAdvisorDiagrams", failing)
      [] choice = "5" -> Generate("generateTheoryDiagrams", failing)
      [] choice = "6" ->
           IF "Existing_scanProject" \in failing
           THEN [calls |-> << "Existing_scanProject" >>, printed |-> << ScanError >>]
           ELSE [calls |-> << "Existing_scanProject" >>,
                 printed |-> << "Found functions", "Omitted SVG charts" >>]
      [] choice = "7" -> ScanThen("generateSchemaSpyERD", failing)
      [] choice = "8" -> Generate("generateExistingDiagrams", failing)
      [] choice = "9" -> ScanThen("Theory2Reality_WriteAllAnalysis", failing)
      [] choice = "11" -> Generate("AIAdCreate_Exe_WriteAllFunctionDiagrams", failing)
      [] choice = "12" -> Generate("ClassModelBuilder_WriteAllTeachingGuides", failing)
      [] choice = "99" -> Generate("ProjectEvaluator_WriteAllEvaluations", failing)
      [] choice = "0" -> [calls |-> << >>, printed |-> << Goodbye >>]
      [] OTHER -> [calls |-> << >>, printed |-> << InvalidChoice >>]

\* Where the loop body goes after the switch, a failed scan in options
\* 6, 7 and 9 returning from the function.
AfterSwitch_ScanErrorReturns(choice, failing) ==
    IF choice = "0" THEN "returned"
    ELSE IF choice \in { "6", "7", "9" } /\ "Existing_scanProject" \in failing THEN "returned"
    ELSE "continue"

\* Where the loop body goes after the switch: case "0" returns, every
\* other case, a break included, falls to the prompt.
AfterSwitch(choice, failing) ==
    IF choice = "0" THEN "returned" ELSE "continue"

\* continueChoice is one of y, Y, yes, Yes
WantsMore(answer) == ~(answer # "y" /\ answer # "Y" /\ answer # "yes" /\ answer # "Yes")

InitMenu ==
    /\ ScannerIdle
    /\ BTIdle
    /\ PhaseIdle
    /\ EvalIdle
    /\ ReportsIdle
    /\ HelpersIdle
    /\ menu = [pc |-> "menu", round |-> 1, typed |-> "", choice |-> "", calls |-> << >>,
               printed |-> << >>, asked |-> FALSE, answer |-> ""]

\* The menu is printed, a choice is read (the empty line is "1") and the
\* switch handles it.
Menu_Choose ==
    /\ menu.pc = "menu"
    /\ menu.round <= MaxRounds
    /\ \E typed \in Choices :
          LET choice == IF typed = "" THEN "1" ELSE typed
          IN  \E failing \in SUBSET Fallible(choice) :
                 LET r == Switch(choice, failing)
                 IN  menu' = [menu EXCEPT !.pc = AfterSwitch(choice, failing),
                                          !.typed = typed,
                                          !.choice = choice,
                                          !.calls = r.calls,
                                          !.printed = r.printed,
                                          !.asked = FALSE,
                                          !.answer = ""]
    /\ UNCHANGED scanner
    /\ UNCHANGED exceptMenu

\* "Generate more charts? (y/N)" is printed and the answer read.
Menu_Continue ==
    /\ menu.pc = "continue"
    /\ \E answer \in Answers :
          menu' = [menu EXCEPT !.pc = IF WantsMore(answer) THEN "menu" ELSE "returned",
                               !.round = IF WantsMore(answer) THEN @ + 1 ELSE @,
                               !.asked = TRUE,
                               !.answer = answer,
                               !.printed = IF WantsMore(answer) THEN @ ELSE Append(@, Goodbye)]
    /\ UNCHANGED scanner
    /\ UNCHANGED exceptMenu

NextMenu == Menu_Choose \/ Menu_Continue

SpecMenu == InitMenu /\ [][NextMenu]_vars

----------------------------------------------------------------------------
(* The menu as documented *)

\* The switch has handled a choice.
Handled == menu.pc \in { "continue", "returned" } \/ menu.round > 1

\* C17: choice "10" runs the Model to Reality analysis: the project is
\* scanned, Theory2Reality_WriteAllAnalysis is called unless the scan
\* failed, and the choice is not reported as invalid.
C17_Choice10RunsAnalysis ==
    (Handled /\ menu.choice = "10") =>
        /\ InvalidChoice \notin Range(menu.printed)
        /\ "Existing_scanProject" \in Range(menu.calls)
        /\ \/ ScanError \in Range(menu.printed)
           \/ "Theory2Reality_WriteAllAnalysis" \in Range(menu.calls)

\* The answers that show the menu again.
YesAnswers == { "y", "Y", "yes", "Yes" }

\* C18: after any choice other than "0" the user is asked whether to
\* continue; the menu is shown again exactly when the answer is y, Y,
\* yes or Yes, and otherwise runInteractiveMode returns; choice "0"
\* returns without asking; a failed generation or scan never ends the
\* loop by itself.
C18_LoopBased ==
    /\ Handled /\ menu.choice = "0" => menu.pc = "returned" /\ ~menu.asked
    /\ Handled /\ menu.choice # "0" =>
          /\ ~menu.asked => menu.pc = "continue"
          /\ menu.asked /\ menu.answer \in YesAnswers => menu.pc = "menu"
          /\ menu.asked /\ menu.answer \notin YesAnswers => menu.pc = "returned"
    /\ menu.pc = "returned" /\ menu.choice # "0" => menu.asked /\ menu.answer \notin YesAnswers
    /\ menu.pc = "menu" /\ menu.round > 1 => menu.asked /\ menu.answer \in YesAnswers

\* The menu is shown again after a failed scan in option 7.
C18_Witness ==
    /\ menu.pc = "menu"
    /\ menu.round = 2
    /\ menu.choice = "7"
    /\ ScanError \in Range(menu.printed)
    /\ menu.answer = "yes"

----------------------------------------------------------------------------
(* The order of the scan *)

\* The entries the walk hands to the callback, in walk order: all but
\* those beneath a skipped directory.
Reached == SelectSeq(WalkOrder(Entries(fs.files)), LAMBDA e : ~BeneathSkipped(e))

\* The position in the walk of the entry with the given path, 0 for none.
PositionOf(path) ==
    LET at == { i \in 1..Len(Reached) : PathOf(Reached[i]) = path }
    IN  IF at = {} THEN 0 ELSE CHOOSE i \in at : TRUE

\* The position of the first entry that fails, 0 when none does.
FirstFailing ==
    LET failing == { i \in 1..Len(Reached) : Failing(Reached[i]) }
    IN  IF failing = {} THEN 0 ELSE CHOOSE i \in failing : \A j \in failing : i <= j

\* The walk has ended with an error.
Failed == pc \in { "return", "done" } /\ err # NoErr

\* C21: files are parsed one at a time in walk order; once an entry
\* fails, the error is that of the first failing entry, no later entry
\* is parsed, Functions, Files and Packages hold only what entries before
\* it gave, and the failing file is in none of them.
C21_FailFast ==
    /\ \A i, j \in 1..Len(parsed) : i < j => PositionOf(parsed[i]) < PositionOf(parsed[j])
    /\ Failed =>
          LET k      == FirstFailing
              early  == { PathOf(Reached[i]) : i \in 1..(k - 1) }
          IN  /\ k > 0
              /\ err.path = PathOf(Reached[k])
              /\ pc = "done" => result.err = err
              /\ Range(parsed) \subseteq early \cup { PathOf(Reached[k]) }
              /\ Range(structure.Files) \subseteq early
              /\ \A i \in 1..Len(structure.Functions) : structure.Functions[i].File \in early
              /\ GroupedPaths(structure) \subseteq early

\* The scan returned the parse error of one file and left a later valid
\* candidate unparsed.
C21_Witness ==
    /\ Done
    /\ result.err.kind = "parse"
    /\ \E e \in Candidates :
          /\ SrcOf(fs.files, e).ok
          /\ PathOf(e) \notin Range(parsed)
          /\ PositionOf(PathOf(e)) > FirstFailing

\* The position of the path in Files, 0 for none.
FileIndex(st, path) ==
    LET at == { i \in 1..Len(st.Files) : st.Files[i] = path }
    IN  IF at = {} THEN 0 ELSE CHOOSE i \in at : TRUE

\* C22: Functions is the concatenation of the per-file declaration lists
\* in the order of Files: the Declarations of a file earlier in Files all
\* precede those of a later file (so those of one file are contiguous),
\* and the Declarations of one file are in source order, by Line.
C22_FunctionsInFileOrder ==
    LET st == structure
    IN  \A i, j \in 1..Len(st.Functions) :
            i < j =>
                /\ FileIndex(st, st.Functions[i].File) > 0
                /\ FileIndex(st, st.Functions[i].File) <= FileIndex(st, st.Functions[j].File)
                /\ st.Functions[i].File = st.Functions[j].File =>
                       st.Functions[i].Line <= st.Functions[j].Line

\* Two files were scanned, each with two declarations.
C22_Witness ==
    /\ Done
    /\ result.err = NoErr
    /\ Len(result.snapshot.Files) = 2
    /\ Len(result.snapshot.Functions) = 4
    /\ result.snapshot.Functions[2].File # result.snapshot.Functions[3].File

----------------------------------------------------------------------------
(* The root directory *)

\* The root bears a name the skip rule matches.
RootNameSkippable == SkippedName(Base(fs.root))

\* C23: the root directory is never skipped, whatever its name: a scan
\* that succeeds lists exactly the candidate files of the tree, those
\* directly in the root included, and leaves out only what lies in
\* skipped directories strictly below the root.
C23_RootNeverSkipped ==
    (Done /\ result.err = NoErr) =>
        Range(result.snapshot.Files) = { PathOf(e) : e \in Candidates }

\* A root named "vendor" was scanned: its own file is listed and the
\* file in .git below it is not.
C23_Witness ==
    /\ Done
    /\ result.err = NoErr
    /\ RootNameSkippable
    /\ fs.root = S_vendor
    /\ result.snapshot.Files = << S_vendor \o S_slash \o S_a_go >>
    /\ << << S_dotgit >>, S_a_go >> \in DOMAIN fs.files

----------------------------------------------------------------------------
(* Existing_generateUpdatedReports *)

\* The trees whose scan is handed to the report generators.
ReportTrees ==
    UNION { { f \in [L -> Sources] :
                \A l \in L : f[l] \in (IF l[2] = S_a_go
                                       THEN { "broken", "main_helper", "no_funcs" }
                                       ELSE { "main_helper", "store_put" }) }
            : L \in SubsetsUpTo({ << << >>, S_a_go >>, << << S_sub >>, S_b_go >>,
                                  << << S_dotgit >>, S_a_go >> }, MaxFiles) }

InitReports ==
    /\ \E r \in RootDirs, f \in ReportTrees : fs = [root |-> r, files |-> f, bad |-> NoEntry]
    /\ pending = << >>
    /\ structure = NilSnapshot
    /\ err = NoErr
    /\ parsed = << >>
    /\ result = ReturnValue(NilSnapshot, NoErr)
    /\ log = << >>
    /\ pc = "call"
    /\ CallerIdle

\* The packages that occur in the declarations.
PackagesOf(functions) == { functions[i].Package : i \in 1..Len(functions) }

\* Existing_categorizeFunctions with a group that is a slice of the
\* argument's own array when all declarations are of one package.
Existing_categorizeFunctions_Shared(functions) ==
    [pkg \in PackagesOf(functions) |->
        [array |-> IF Cardinality(PackagesOf(functions)) = 1 THEN "argument" ELSE "fresh",
         elems |-> SelectSeq(functions, LAMBDA fn : fn.Package = pkg)]]

\* groups[fn.Package] = append(groups[fn.Package], fn): every group is a
\* slice with an array of its own, holding copies of the declarations in
\* the order of the argument.
Existing_categorizeFunctions(functions) ==
    [pkg \in PackagesOf(functions) |->
        [array |-> "fresh",
         elems |-> SelectSeq(functions, LAMBDA fn : fn.Package = pkg)]]

\* sort.Slice(functions, by Name): the declaration is put after the last
\* one whose name is not greater.
RECURSIVE InsertByName(_, _)
InsertByName(fn, sorted) ==
    IF sorted = << >> THEN << fn >>
    ELSE IF StrLess(fn.Name, Head(sorted).Name) THEN << fn >> \o sorted
    ELSE << Head(sorted) >> \o InsertByName(fn, Tail(sorted))

RECURSIVE SortByName(_)
SortByName(functions) ==
    IF functions = << >> THEN << >>
    ELSE InsertByName(functions[Len(functions)],
                      SortByName(SubSeq(functions, 1, Len(functions) - 1)))

\* What the sort of the groups leaves in the array of the argument: the
\* sorted elements where a group is a slice of that array.
AfterSort(functions, groups) ==
    IF \E pkg \in DOMAIN groups : groups[pkg].array = "argument"
    THEN SortByName(functions)
    ELSE functions

\* Existing_generateUpdatedReports is called with the snapshot of a scan
\* that succeeded.
Reports_Call ==
    /\ pc = "done"
    /\ result.err = NoErr
    /\ rp.pc = "idle"
    /\ rp' = [pc |-> "running", step |-> 1, given |-> result.snapshot, groups |-> EmptyMap,
              summary |-> [Functions |-> 0, Files |-> 0, Packages |-> 0],
              written |-> {}, err |-> Nil]
    /\ UNCHANGED scanner
    /\ UNCHANGED exceptReports

\* The step after step number i, or the return of the error.
AfterStep(i, ok) ==
    IF ~ok THEN [rp EXCEPT !.pc = "returned", !.err = Errorf("write report", DynamicReports[i])]
    ELSE IF i = Len(DynamicReports)
    THEN [rp EXCEPT !.pc = "returned", !.written = @ \cup { DynamicReports[i] }]
    ELSE [rp EXCEPT !.step = i + 1, !.written = @ \cup { DynamicReports[i] }]

\* Existing_generateFunctionInventory: the declarations are grouped by
\* package, every group is sorted by name and written with the number of
\* files of its package, then the totals, and the file is written.
Reports_Inventory ==
    /\ rp.pc = "running"
    /\ rp.step = 1
    /\ LET st     == result.snapshot
           groups == Existing_categorizeFunctions(st.Functions)
       IN  /\ result' = [result EXCEPT !.snapshot.Functions = AfterSort(st.Functions, groups)]
           /\ \E ok \in BOOLEAN :
                 rp' = [AfterStep(1, ok) EXCEPT
                          !.groups = [pkg \in DOMAIN groups |->
                                         [files |-> Len(MapGet(st.Packages, pkg)),
                                          functions |-> SortByName(groups[pkg].elems)]],
                          !.summary = [Functions |-> Len(st.Functions),
                                       Files |-> Len(st.Files),
                                       Packages |-> Cardinality(DOMAIN st.Packages)]]
    /\ UNCHANGED << fs, pending, structure, err, parsed, pc, log >>
    /\ UNCHANGED exceptReports

\* The development sequence, the status report and the two diagrams: each
\* reads the snapshot and writes its file.
Reports_Write ==
    /\ rp.pc = "running"
    /\ rp.step > 1
    /\ \E ok \in BOOLEAN : rp' = AfterStep(rp.step, ok)
    /\ UNCHANGED scanner
    /\ UNCHANGED exceptReports

NextReports == Next \/ Reports_Call \/ Reports_Inventory \/ Reports_Write

SpecReports == InitReports /\ [][NextReports]_vars

----------------------------------------------------------------------------
(* The snapshot and its reports *)

\* C24: report generation never modifies the snapshot it is given: during
\* and after Existing_generateUpdatedReports, returned with or without
\* error, Functions (order included), Files and Packages are what they
\* were before the call.
C24_ReportsLeaveSnapshot ==
    rp.pc \in { "running", "returned" } => result.snapshot = rp.given

\* The reports were all written, and the inventory listed a package's
\* declarations in another order than the snapshot holds them.
C24_Witness ==
    /\ rp.pc = "returned"
    /\ rp.err = Nil
    /\ \E pkg \in DOMAIN rp.groups :
          rp.groups[pkg].functions
              # SelectSeq(rp.given.Functions, LAMBDA fn : fn.Package = pkg)

\* C27: after every successful scan the keys of Packages are the packages
\* that occur in Functions; every package group of the inventory has a
\* non-empty file list in Packages, and the package count the inventory
\* reports is the number of its package groups.
C27_PackagesMatchFunctions ==
    /\ (Done /\ result.err = NoErr) =>
          DOMAIN result.snapshot.Packages = PackagesOf(result.snapshot.Functions)
    /\ (rp.pc \in { "running", "returned" } /\ rp.step > 1) =>
          /\ \A pkg \in DOMAIN rp.groups : rp.groups[pkg].files > 0
          /\ rp.summary.Packages = Cardinality(DOMAIN rp.groups)

\* The inventory of a scan with a file of two declarations and a file
\* without any: one package group, one file under it, two files in all.
C27_Witness ==
    /\ rp.pc = "returned"
    /\ rp.step > 1
    /\ rp.summary.Packages = 1
    /\ rp.summary.Files = 2
    /\ rp.summary.Functions = 2

----------------------------------------------------------------------------
(* findModuleRoot *)

S_dotdot == << ".", "." >>

\* strings.Split(path, "/"): the elements between the separators.
RECURSIVE Split(_)
Split(path) ==
    LET slashes == { i \in 1..Len(path) : path[i] = "/" }
    IN  IF slashes = {} THEN << path >>
        ELSE LET i == CHOOSE s \in slashes : \A t \in slashes : s <= t
             IN  << SubSeq(path, 1, i - 1) >> \o Split(SubSeq(path, i + 1, Len(path)))

\* The elements filepath.Clean keeps: empty elements and "." are dropped,
\* ".." removes the element before it, is dropped at the root and is kept
\* at the start of a relative path.
RECURSIVE CleanComps(_, _, _)
CleanComps(comps, out, rooted) ==
    IF comps = << >> THEN out
    ELSE LET c == Head(comps)
         IN  IF c = << >> \/ c = S_dot THEN CleanComps(Tail(comps), out, rooted)
             ELSE IF c = S_dotdot
             THEN IF out # << >> /\ out[Len(out)] # S_dotdot
                  THEN CleanComps(Tail(comps), SubSeq(out, 1, Len(out) - 1), rooted)
                  ELSE IF rooted THEN CleanComps(Tail(comps), out, rooted)
                  ELSE CleanComps(Tail(comps), Append(out, c), rooted)
             ELSE CleanComps(Tail(comps), Append(out, c), rooted)

\* filepath.Clean(path).
Clean(path) ==
    IF path = << >> THEN S_dot
    ELSE LET rooted == path[1] = "/"
             out    == CleanComps(Split(path), << >>, rooted)
         IN  IF rooted THEN (IF out = << >> THEN S_slash ELSE S_slash \o JoinComps(out))
             ELSE IF out = << >> THEN S_dot ELSE JoinComps(out)

\* filepath.Dir(path): the path up to its last separator, cleaned.
Dir(path) ==
    LET slashes == { i \in 1..Len(path) : path[i] = "/" }
        last    == IF slashes = {} THEN 0
                   ELSE CHOOSE i \in slashes : \A j \in slashes : j <= i
    IN  Clean(SubSeq(path, 1, last))

\* filepath.Join(dir, name): the non-empty elements joined and cleaned.
Join(dir, name) == IF dir = << >> THEN Clean(name) ELSE Clean(dir \o S_slash \o name)

\* The directories that exist, each as its elements below the file system
\* root, and the working directory of the process.
Dirs == { << >>, << S_proj >>, << S_proj, S_sub >>, << S_vendor >> }
Cwd  == << S_proj >>

\* The directory a path names: a relative path starts at the working
\* directory, "." stays, ".." goes to the parent and stays at the root.
RECURSIVE ResolveFrom(_, _)
ResolveFrom(at, comps) ==
    IF comps = << >> THEN at
    ELSE LET c == Head(comps)
         IN  IF c = << >> \/ c = S_dot THEN ResolveFrom(at, Tail(comps))
             ELSE IF c = S_dotdot
             THEN ResolveFrom(IF at = << >> THEN at ELSE SubSeq(at, 1, Len(at) - 1), Tail(comps))
             ELSE ResolveFrom(Append(at, c), Tail(comps))

Resolve(path) ==
    ResolveFrom(IF path # << >> /\ path[1] = "/" THEN << >> ELSE Cwd, Split(path))

\* The values of startDir: absolute and relative names of the directories.
StartDirs ==
    { S_slash \o S_proj \o S_slash \o S_sub, S_slash \o S_proj, S_slash,
      S_slash \o S_vendor, S_sub, S_sub \o S_slash, S_dot, S_dotdot,
      S_dotdot \o S_slash \o S_vendor }

\* fileExists(path): os.Stat finds a file that is not a directory.
fileExists(path, mods) ==
    LET at == Resolve(path)
    IN  /\ at # << >>
        /\ at[Len(at)] = S_go_mod
        /\ SubSeq(at, 1, Len(at) - 1) \in mods

InitModuleRoot ==
    /\ \E r \in RootDirs : fs = [root |-> r, files |-> << >>, bad |-> NoEntry]
    /\ pending = << >>
    /\ structure = NilSnapshot
    /\ err = NoErr
    /\ parsed = << >>
    /\ result = ReturnValue(NilSnapshot, NoErr)
    /\ log = << >>
    /\ pc = "call"
    /\ BTIdle /\ PhaseIdle /\ EvalIdle /\ MenuIdle /\ ReportsIdle
    /\ sq = NotRunning
    /\ dd = NotRunning
    /\ \E s \in StartDirs, m \in SUBSET Dirs :
          mr = [pc |-> "call", startDir |-> s, mods |-> m, dir |-> << >>,
                ret |-> << << >>, FALSE >>, steps |-> 0]

\* dir := startDir
MR_Call ==
    /\ mr.pc = "call"
    /\ mr' = [mr EXCEPT !.pc = "loop", !.dir = mr.startDir]
    /\ UNCHANGED scanner
    /\ UNCHANGED exceptModuleRoot

\* if fileExists(filepath.Join(dir, "go.mod")) { return dir, true }
MR_Found ==
    /\ mr.pc = "loop"
    /\ fileExists(Join(mr.dir, S_go_mod), mr.mods)
    /\ mr' = [mr EXCEPT !.pc = "returned", !.ret = << mr.dir, TRUE >>]
    /\ UNCHANGED scanner
    /\ UNCHANGED exceptModuleRoot

\* parent := filepath.Dir(dir); dir = parent
MR_Up ==
    /\ mr.pc = "loop"
    /\ ~fileExists(Join(mr.dir, S_go_mod), mr.mods)
    /\ Dir(mr.dir) # mr.dir
    /\ mr' = [mr EXCEPT !.dir = Dir(mr.dir), !.steps = @ + 1]
    /\ UNCHANGED scanner
    /\ UNCHANGED exceptModuleRoot

\* if parent == dir { return startDir, false }
MR_NotFound ==
    /\ mr.pc = "loop"
    /\ ~fileExists(Join(mr.dir, S_go_mod), mr.mods)
    /\ Dir(mr.dir) = mr.dir
    /\ mr' = [mr EXCEPT !.pc = "returned", !.ret = << mr.startDir, FALSE >>]
    /\ UNCHANGED scanner
    /\ UNCHANGED exceptModuleRoot

NextModuleRoot == MR_Call \/ MR_Found \/ MR_Up \/ MR_NotFound

SpecModuleRoot == InitModuleRoot /\ [][NextModuleRoot]_vars

\* The directory startDir names and its ancestors, from startDir upward.
Upward(at) == [i \in 1..(Len(at) + 1) |-> SubSeq(at, 1, Len(at) + 1 - i)]

\* C25: findModuleRoot returns (d, true) with d the nearest directory,
\* among startDir and its ancestors from startDir upward, that contains
\* go.mod, and (startDir, false) when none of them contains go.mod.
C25_NearestModuleRoot ==
    mr.pc = "returned" =>
        LET chain == Upward(Resolve(mr.startDir))
            with  == { i \in DOMAIN chain : chain[i] \in mr.mods }
        IN  IF with = {}
            THEN mr.ret = << mr.startDir, FALSE >>
            ELSE /\ mr.ret[2]
                 /\ Resolve(mr.ret[1]) = chain[CHOOSE i \in with : \A j \in with : i <= j]

\* For an absolute startDir the claim holds: the nearest go.mod upward is
\* the one returned.
MR_AbsoluteNearest ==
    (mr.pc = "returned" /\ mr.startDir[1] = "/") =>
        LET chain == Upward(Resolve(mr.startDir))
            with  == { i \in DOMAIN chain : chain[i] \in mr.mods }
        IN  IF with = {}
            THEN mr.ret = << mr.startDir, FALSE >>
            ELSE /\ mr.ret[2]
                 /\ Resolve(mr.ret[1]) = chain[CHOOSE i \in with : \A j \in with : i <= j]

----------------------------------------------------------------------------
(* Termination of the scan *)

\* Existing_scanProject runs in the goroutine of its caller and calls only
\* functions that return (filepath.Walk over a finite tree, os.ReadFile and
\* the parser over a finite file): a step that can be taken is taken.
InitLive == InitOver(RepeatTrees)

LiveSpec == InitLive /\ [][Next]_vars /\ WF_vars(Next)

\* C26: for every finite tree Existing_scanProject terminates, returning a
\* snapshot or an error; it parses each candidate file at most once, and
\* exactly once when the scan succeeds; every step either moves the scan
\* to its next stage or takes an entry off the walk, so that it never
\* waits or retries.
C26_ScanTerminates ==
    /\ <>Done
    /\ [](NoDuplicates(parsed) /\ Range(parsed) \subseteq { PathOf(e) : e \in Candidates })
    /\ []((Done /\ result.err = NoErr) => Range(parsed) = { PathOf(e) : e \in Candidates })
    /\ [](Done => (result.err # NoErr \/ ~result.snapshot.isNil))
    /\ [][pc' # pc \/ Len(pending') < Len(pending)]_vars

\* A scan that returned a snapshot after parsing two candidate files.
C26_Witness ==
    /\ Done
    /\ result.err = NoErr
    /\ Len(parsed) = 2
    /\ Cardinality(Candidates) = 2

----------------------------------------------------------------------------
(* Existing_generateDynamicDevelopmentSequence *)

\* phases := []string{...}: the order the subgraphs are written in.
Phases_NoDataLayer ==
    << "Foundation", "Store Layer", "Application Layer", "API Layer", "Routing Layer",
       "Main App" >>

Phases ==
    << "Foundation", "Data Layer", "Store Layer", "Application Layer", "API Layer",
       "Routing Layer", "Main App" >>

\* phaseNum*100+i: the factor that separates the node numbers of two phases.
Stride == 100

\* The files the modelled declarations are in, one for every rule of
\* Existing_determinePhase.
SequenceFiles ==
    { S_database \o S_dotgo, S_a_go, S_store \o S_dotgo, S_app \o S_dotgo,
      S_handler \o S_dotgo, S_routes \o S_dotgo, S_main \o S_dotgo }

\* How many declarations a file has.
FewDecls  == { 1, 2 }
ManyDecls == { Stride, Stride + 1 }

\* n declarations of one file, on the lines after line `from`.
DeclsOf(file, n, from) ==
    [i \in 1..n |-> FunctionInfo(S_Get, file, S_empty, from + i, FALSE, S_empty, S_empty)]

\* The Functions of the modelled snapshots, in scan order: the
\* declarations of up to three files with few declarations each, and those
\* of a file with many declarations followed by at most one of another.
SequenceInputs ==
    { DeclsOf(b[1], n[1], 0) \o DeclsOf(b[2], n[2], n[1]) \o DeclsOf(b[3], n[3], n[1] + n[2]) :
        b \in [1..3 -> SequenceFiles],
        n \in { m \in [1..3 -> {0} \cup FewDecls] :
                  /\ m[3] \in {0, 1}
                  /\ (m[1] = 0 => m[2] = 0)
                  /\ (m[2] = 0 => m[3] = 0) } }
    \cup
    { DeclsOf(b, n, 0) \o DeclsOf(c, m, n) :
        b \in { S_database \o S_dotgo, S_store \o S_dotgo }, n \in ManyDecls,
        c \in SequenceFiles, m \in {0, 1} }

InitSequence ==
    /\ ScannerIdle
    /\ BTIdle /\ PhaseIdle /\ EvalIdle /\ MenuIdle /\ ReportsIdle
    /\ mr = NotRunning
    /\ dd = NotRunning
    /\ \E fns \in SequenceInputs :
          sq = [pc |-> "group", functions |-> fns, phaseGroups |-> EmptyMap,
                next |-> 1, phaseNum |-> 1, content |-> << >>, ret |-> Nil]

\* for _, fn := range structure.Functions {
\*     phaseGroups[phase] = append(phaseGroups[phase], fn) }
\* A declaration is kept by its index in Functions.
SQ_Group ==
    /\ sq.pc = "group"
    /\ LET labels == { Existing_determinePhase(sq.functions[i]) : i \in 1..Len(sq.functions) }
       IN  sq' = [sq EXCEPT
                    !.pc = "phases",
                    !.phaseGroups =
                        [p \in labels |->
                            SelectSeq([i \in 1..Len(sq.functions) |-> i],
                                      LAMBDA i : Existing_determinePhase(sq.functions[i]) = p)]]
    /\ UNCHANGED scanner
    /\ UNCHANGED exceptSequence

\* One turn of `for _, phase := range phases`: the subgraph of the phase
\* with a node per declaration, numbered phaseNum*100+i from i = 0.
SQ_Phase ==
    /\ sq.pc = "phases"
    /\ sq.next <= Len(Phases)
    /\ LET phase == Phases[sq.next]
       IN  IF phase \in DOMAIN sq.phaseGroups
           THEN LET functions == sq.phaseGroups[phase]
                IN  sq' = [sq EXCEPT
                             !.next = @ + 1,
                             !.phaseNum = @ + 1,
                             !.content = @ \o << [kind |-> "subgraph", id |-> sq.phaseNum,
                                                  phase |-> phase, decl |-> 0] >>
                                           \o [i \in 1..Len(functions) |->
                                                 [kind |-> "node",
                                                  id |-> sq.phaseNum * Stride + (i - 1),
                                                  phase |-> phase, decl |-> functions[i]]]
                                           \o << [kind |-> "end", id |-> 0,
                                                  phase |-> phase, decl |-> 0] >>]
           ELSE sq' = [sq EXCEPT !.next = @ + 1]
    /\ UNCHANGED scanner
    /\ UNCHANGED exceptSequence

\* return os.WriteFile(path, []byte(content), 0644)
SQ_Write ==
    /\ sq.pc = "phases"
    /\ sq.next > Len(Phases)
    /\ \E ok \in BOOLEAN :
          sq' = [sq EXCEPT !.pc = "returned",
                           !.ret = IF ok THEN Nil
                                   ELSE Errorf("write report", "dynamic_development_sequence")]
    /\ UNCHANGED scanner
    /\ UNCHANGED exceptSequence

NextSequence == SQ_Group \/ SQ_Phase \/ SQ_Write

SpecSequence == InitSequence /\ [][NextSequence]_vars

\* The node lines of the diagram.
NodeLines == SelectSeq(sq.content, LAMBDA l : l.kind = "node")

\* C28: every Declaration of the snapshot is emitted as a node in exactly
\* one phase subgraph: every label Existing_determinePhase returns is one
\* of the seven phases iterated, none is dropped and none emitted twice.
C28_EveryDeclarationOnce ==
    /\ sq.pc # "idle" =>
          \A i \in 1..Len(sq.functions) :
              \E k \in 1..Len(Phases) : Existing_determinePhase(sq.functions[i]) = Phases[k]
    /\ sq.pc = "returned" =>
          \A i \in 1..Len(sq.functions) :
              /\ Cardinality({ k \in 1..Len(NodeLines) : NodeLines[k].decl = i }) = 1
              /\ \A k \in 1..Len(NodeLines) :
                    NodeLines[k].decl = i =>
                        NodeLines[k].phase = Existing_determinePhase(sq.functions[i])

\* A diagram of three subgraphs, written for declarations of three phases.
C28_Witness ==
    /\ sq.pc = "returned"
    /\ sq.ret = Nil
    /\ sq.phaseNum = 4
    /\ Len(NodeLines) = Len(sq.functions)
    /\ "Data Layer" \in DOMAIN sq.phaseGroups

\* C29: the node identifiers F<phaseNum*100+i> of the diagram are pairwise
\* distinct, whatever the number of Declarations in each phase.
C29_NodeIdsDistinct ==
    sq.pc = "returned" =>
        \A j, k \in 1..Len(NodeLines) : j # k => NodeLines[j].id # NodeLines[k].id

----------------------------------------------------------------------------
(* Existing_WriteFunctionDependencyDiagram *)

S_bt == << "b", "t" >>
S_analysis == << "a", "n", "a", "l", "y", "s", "i", "s" >>
S_debug == << "d", "e", "b", "u", "g" >>
S_tester == << "t", "e", "s", "t", "e", "r" >>
S_internal == << "i", "n", "t", "e", "r", "n", "a", "l" >>
S_api == << "a", "p", "i" >>
S_tokens == << "t", "o", "k", "e", "n", "s" >>
S_middleware == << "m", "i", "d", "d", "l", "e", "w", "a", "r", "e" >>
S_token == << "t", "o", "k", "e", "n" >>
S_jwt == << "j", "w", "t" >>
S_auth == << "a", "u", "t", "h" >>
S_application == << "a", "p", "p", "l", "i", "c", "a", "t", "i", "o", "n" >>
S_newapplication == << "n", "e", "w", "a", "p", "p", "l", "i", "c", "a", "t", "i", "o", "n" >>
S_util == << "u", "t", "i", "l" >>

\* strings.ReplaceAll(s, from, to) for one-character strings.
ReplaceAll(s, from, to) == [i \in 1..Len(s) |-> IF s[i] = from THEN to ELSE s[i]]

\* nodeID := ReplaceAll(ReplaceAll(fn.Name, ".", "_"), "-", "_")
NodeID(fn) == ReplaceAll(ReplaceAll(fn.Name, ".", "_"), "-", "_")

\* The test of mode 1: no BT, test, analysis or debug file or function,
\* and a file of the internal directory structure.
PassesSimplified(fn) ==
    LET filePath == ToLower(fn.File)
        funcName == ToLower(fn.Name)
    IN  /\ ~(\/ Contains(filePath, S_bt)
             \/ Contains(filePath, S_test)
             \/ Contains(filePath, S_analysis)
             \/ Contains(filePath, S_debug)
             \/ Contains(filePath, S_tester)
             \/ Contains(funcName, S_test)
             \/ Contains(funcName, S_debug)
             \/ Contains(funcName, S_analysis))
        /\ \/ Contains(filePath, S_internal)
           \/ Contains(filePath, S_store)
           \/ Contains(filePath, S_api)
           \/ Contains(filePath, S_app)
           \/ Contains(filePath, S_database)
           \/ Contains(filePath, S_tokens)
           \/ Contains(filePath, S_middleware)

\* The if / else-if chain of the grouping loop: the groups the function is
\* appended to.
GroupsOf(fn) ==
    LET filePath == ToLower(fn.File)
        funcName == ToLower(fn.Name)
    IN  IF \/ Contains(filePath, S_internal \o S_slash \o S_app)
           \/ Contains(filePath, S_app)
           \/ Contains(funcName, S_newapplication)
           \/ Contains(funcName, S_application)
        THEN { "app" }
        ELSE IF \/ Contains(filePath, S_internal \o S_slash \o S_store)
                \/ Contains(filePath, S_store)
                \/ Contains(funcName, S_store)
                \/ Contains(funcName, S_create)
                \/ Contains(funcName, S_get)
                \/ Contains(funcName, S_update)
                \/ Contains(funcName, S_delete)
        THEN { "store" }
        ELSE IF \/ Contains(filePath, S_internal \o S_slash \o S_api)
                \/ Contains(filePath, S_api)
                \/ Contains(funcName, S_handle)
                \/ Contains(funcName, S_handler)
        THEN { "api" }
        ELSE IF \/ Contains(filePath, S_internal \o S_slash \o S_database)
                \/ Contains(filePath, S_database)
                \/ Contains(funcName, S_open)
                \/ Contains(funcName, S_migrate)
                \/ Contains(funcName, S_database)
        THEN { "database" }
        ELSE IF \/ Contains(filePath, S_internal \o S_slash \o S_tokens)
                \/ Contains(filePath, S_tokens)
                \/ Contains(funcName, S_token)
                \/ Contains(funcName, S_jwt)
        THEN { "token" }
        ELSE IF \/ Contains(filePath, S_internal \o S_slash \o S_middleware)
                \/ Contains(filePath, S_middleware)
                \/ Contains(funcName, S_middleware)
                \/ Contains(funcName, S_auth)
                \/ Contains(funcName, S_validate)
        THEN { "middleware" }
        ELSE IF Contains(filePath, S_main) \/ funcName = S_main
        THEN { "main" }
        ELSE { "other" }

GroupNames == { "app", "store", "api", "database", "token", "middleware", "main", "other" }

\* The blocks that write the subgraphs, in the order of the code: the
\* group written and the identifier of its subgraph.
Sections ==
    << [group |-> "main",       id |-> "MainApp"],
       [group |-> "database",   id |-> "Database"],
       [group |-> "store",      id |-> "Store"],
       [group |-> "token",      id |-> "Tokens"],
       [group |-> "middleware", id |-> "Middleware"],
       [group |-> "api",        id |-> "API"],
       [group |-> "app",        id |-> "App"],
       [group |-> "other",      id |-> "Other"],
       [group |-> "main",       id |-> "MainApp"] >>

\* A declaration of a file of the modelled project.
DeclIn(dir, file, name) ==
    FunctionInfo(name, dir \o file \o S_dotgo, S_empty, 1, FALSE, S_empty, S_empty)

InternalDir(name) == S_internal \o S_slash \o name \o S_slash

\* The Declarations the scan can find.
DependencyDecls ==
    { DeclIn(S_empty, S_main, S_main),
      DeclIn(S_internal \o S_slash, S_main, S_main),
      DeclIn(InternalDir(S_app), S_app, S_New),
      DeclIn(InternalDir(S_store), S_store, S_Get),
      DeclIn(InternalDir(S_api), S_api, S_New),
      DeclIn(InternalDir(S_database), S_database, S_New),
      DeclIn(InternalDir(S_tokens), S_tokens, S_New),
      DeclIn(InternalDir(S_middleware), S_middleware, S_New),
      DeclIn(S_internal \o S_slash, S_util, S_New),
      DeclIn(S_empty, S_util, S_Get),
      DeclIn(S_internal \o S_slash, S_debug, S_New) }

\* The Functions of the scanned snapshots: one or two Declarations.
DependencyInputs ==
    { << d >> : d \in DependencyDecls }
    \cup { << d, e >> : d \in DependencyDecls, e \in DependencyDecls }

InitDependency ==
    /\ ScannerIdle
    /\ BTIdle /\ PhaseIdle /\ EvalIdle /\ MenuIdle /\ ReportsIdle
    /\ sq = NotRunning
    /\ mr = NotRunning
    /\ \E mode \in {1, 2} :
          dd = [pc |-> "scan", mode |-> mode, functions |-> << >>, filtered |-> << >>,
                groups |-> [g \in GroupNames |-> << >>], section |-> 1,
                content |-> << >>, ret |-> Nil]

\* structure, err := Existing_scanProject(internalDir), then of the project
\* root when that fails; the error when both fail.
DD_Scan ==
    /\ dd.pc = "scan"
    /\ \/ \E fns \in DependencyInputs : dd' = [dd EXCEPT !.pc = "filter", !.functions = fns]
       \/ dd' = [dd EXCEPT !.pc = "returned", !.ret = Errorf("failed to scan project", "")]
    /\ UNCHANGED scanner
    /\ UNCHANGED exceptDependency

\* The mode filter. A function is kept by its index in Functions.
DD_Filter ==
    /\ dd.pc = "filter"
    /\ LET all == [i \in 1..Len(dd.functions) |-> i]
       IN  dd' = [dd EXCEPT
                    !.pc = "group",
                    !.filtered = IF dd.mode = 1
                                 THEN SelectSeq(all, LAMBDA i : PassesSimplified(dd.functions[i]))
                                 ELSE all]
    /\ UNCHANGED scanner
    /\ UNCHANGED exceptDependency

\* for _, fn := range filteredFunctions { ...Funcs = append(...Funcs, fn) }
DD_Group ==
    /\ dd.pc = "group"
    /\ dd' = [dd EXCEPT
                !.pc = "sections",
                !.groups = [g \in GroupNames |->
                               SelectSeq(dd.filtered,
                                         LAMBDA i : g \in GroupsOf(dd.functions[i]))]]
    /\ UNCHANGED scanner
    /\ UNCHANGED exceptDependency

\* One `if len(...Funcs) > 0` block: the subgraph line, a node definition
\* line for every function of the group, and the end line.
DD_Section ==
    /\ dd.pc = "sections"
    /\ dd.section <= Len(Sections)
    /\ LET s     == Sections[dd.section]
           funcs == dd.groups[s.group]
       IN  IF Len(funcs) > 0
           THEN dd' = [dd EXCEPT
                         !.section = @ + 1,
                         !.content = @ \o << [kind |-> "subgraph", id |-> s.id, decl |-> 0] >>
                                       \o [k \in 1..Len(funcs) |->
                                             [kind |-> "node",
                                              id |-> NodeID(dd.functions[funcs[k]]),
                                              decl |-> funcs[k]]]
                                       \o << [kind |-> "end", id |-> s.id, decl |-> 0] >>]
           ELSE dd' = [dd EXCEPT !.section = @ + 1]
    /\ UNCHANGED scanner
    /\ UNCHANGED exceptDependency

\* The dependency arrows and the class lines, which define no node and
\* open no subgraph, and the write of the file.
DD_Write ==
    /\ dd.pc = "sections"
    /\ dd.section > Len(Sections)
    /\ \E ok \in BOOLEAN :
          dd' = [dd EXCEPT !.pc = "returned",
                           !.ret = IF ok THEN Nil ELSE Errorf("write diagram", "")]
    /\ UNCHANGED scanner
    /\ UNCHANGED exceptDependency

NextDependency == DD_Scan \/ DD_Filter \/ DD_Group \/ DD_Section \/ DD_Write

SpecDependency == InitDependency /\ [][NextDependency]_vars

\* The lines of a kind in the diagram.
LinesOf(kind) == SelectSeq(dd.content, LAMBDA l : l.kind = kind)

\* Every function that passed the mode filter is in exactly one group.
DD_ExactlyOneGroup ==
    dd.pc \in { "sections", "returned" } =>
        \A k \in 1..Len(dd.filtered) :
            Cardinality({ g \in GroupNames :
                            \E j \in 1..Len(dd.groups[g]) :
                                dd.groups[g][j] = dd.filtered[k] }) = 1

\* C30: every function that passes the mode filter is assigned to exactly
\* one of the eight groups, its node definition line is written exactly
\* once, and each subgraph identifier is opened at most once.
C30_OneGroupOneNode ==
    (dd.pc = "returned" /\ dd.section > Len(Sections)) =>
        /\ \A k \in 1..Len(dd.filtered) :
              /\ Cardinality({ g \in GroupNames :
                                 \E j \in 1..Len(dd.groups[g]) :
                                     dd.groups[g][j] = dd.filtered[k] }) = 1
              /\ Cardinality({ j \in 1..Len(LinesOf("node")) :
                                 LinesOf("node")[j].decl = dd.filtered[k] }) = 1
        /\ \A i, j \in 1..Len(LinesOf("subgraph")) :
              i # j => LinesOf("subgraph")[i].id # LinesOf("subgraph")[j].id

====
